---- MODULE Spec2Model ----
(***************************************************************************)
(* The weather API of adcleek-weather: the GET /weather/:insee handler of  *)
(* api/src/routes/api.routes.ts, the forecast and city tables it reads and *)
(* writes, and the upstream provider it calls.                             *)
(*                                                                         *)
(* A request is a chain of continuations separated by awaits.  Each action *)
(* below is one awaited operation completing (a database statement or the  *)
(* provider call) followed by the handler's code up to its next await, so  *)
(* two requests interleave exactly at the handler's suspension points.     *)
(*                                                                         *)
(* Calendar dates are ISO strings (YYYY-MM-DD) in the code; they are       *)
(* modelled as day numbers, whose order is the strings' order.             *)
(***************************************************************************)
EXTENDS Integers, Sequences, FiniteSets, TLC

VARIABLES
    city,       \* the city table: a set of rows
    forecast,   \* the forecast table: a set of rows (insee, date, details)
    clock,      \* the current UTC calendar day
    req,        \* the GET /weather requests in flight, by slot
    norm,       \* one raw day record and what its normalization gave
    post,       \* the POST /cities requests in flight, by slot
    list,       \* the GET /cities request in flight
    app,        \* the closure of createApp: database and apiRoutesRouter
    areq,       \* the requests an app instance is handling, by slot
    dbh,        \* a Database helper object and the calls made on it
    boot,       \* a run of InitDb.initialize
    page,       \* the cities page of the web client
    server      \* the server process after startServer

\* the state outside the API routes
rest == <<app, areq, dbh, boot, page, server>>

vars == <<city, forecast, clock, req, norm, post, list, rest>>

(***************************************************************************)
(* Bounds of the model                                                     *)
(***************************************************************************)
\* the last calendar day the clock reaches
MaxDay == 4
\* the longest forecast list the provider returns
MaxRaw == 5

\* the request slots: two requests may be in flight at once
ReqIds == {"r1", "r2"}
\* the slot used when requests come one at a time
Serial == {"r1"}
\* the provider's day 0 is the local day: the UTC day or the next one
Skews == {0, 1}
\* the two shapes of raw day record the provider returns
Variants == {1, 2}

(***************************************************************************)
(* JavaScript values: undefined, null, NaN and numbers.  A number is an    *)
(* exact fraction n/d in lowest terms (averages are halves, thirds, ...).  *)
(***************************************************************************)
Undefined == [t |-> "undefined"]
Null == [t |-> "null"]
NaN == [t |-> "NaN"]

RECURSIVE Gcd(_, _)
Gcd(a, b) == IF b = 0 THEN a ELSE Gcd(b, a % b)

Abs(x) == IF x < 0 THEN -x ELSE x

Rat(n, d) ==
    LET g == Gcd(Abs(n), d)
    IN  [t |-> "num", n |-> n \div g, d |-> d \div g]

Num(n) == [t |-> "num", n |-> n, d |-> 1]

IsNum(x) == x.t = "num"

\* JavaScript truthiness of a value: undefined, null, NaN and 0 are falsy
Truthy(x) == IsNum(x) /\ x.n # 0

\* a || b
JsOr(a, b) == IF Truthy(a) THEN a ELSE b

\* a + b on numbers; undefined + x is NaN
JsAdd(a, b) ==
    IF IsNum(a) /\ IsNum(b)
    THEN Rat(a.n * b.d + b.n * a.d, a.d * b.d)
    ELSE NaN

\* a / k for a positive integer k
JsDiv(a, k) == IF IsNum(a) THEN Rat(a.n, a.d * k) ELSE NaN

\* a > 0
JsPositive(a) == IsNum(a) /\ a.n > 0

(***************************************************************************)
(* The upstream provider's payload.  A raw day record maps each field name *)
(* the handler reads to a number, or to undefined when the record lacks    *)
(* the field.  datetime is an ISO timestamp: the text before its 'T' (the  *)
(* date) and the text after it.                                            *)
(***************************************************************************)
RawFields ==
    {"datetime", "temp2m", "tmin", "tmax", "probarain", "probrain",
     "rh2m", "humidity", "pmer", "pressure", "wind10m", "wind_speed",
     "gust10m", "wind_gust", "dirwind10m", "wind_direction",
     "weather", "weather_code"}

NoFields == [f \in RawFields |-> Undefined]

Timestamp(date) == [t |-> "str", date |-> date, time |-> "00:00:00+0100"]

\* the provider's record for calendar day `date`:
\* variant 1 has the daily endpoint's field names (tmin/tmax, probarain),
\* variant 2 the hourly endpoint's (temp2m) and the alternate spellings
RawDay(date, v) ==
    IF v = 1
    THEN [NoFields EXCEPT
            !["datetime"] = Timestamp(date),
            !["tmin"] = Num(2), !["tmax"] = Num(10),
            !["probarain"] = Num(10 * ((date % 4) + 1)),
            !["wind10m"] = Num(15), !["gust10m"] = Num(30),
            !["dirwind10m"] = Num(270), !["weather"] = Num(3)]
    ELSE [NoFields EXCEPT
            !["datetime"] = Timestamp(date),
            !["temp2m"] = Num(1 - (date % 3)),
            !["probrain"] = Num(7),
            !["humidity"] = Num(80), !["pressure"] = Num(1013),
            !["wind_speed"] = Num(0), !["weather_code"] = Num(1)]

Array(items) == [t |-> "array", items |-> items]

Daily(start, n, v) == Array([k \in 1..n |-> RawDay(start + k - 1, v)])

\* a list whose second record has no datetime
NoDatetime(start) ==
    Array(<<RawDay(start, 1), [RawDay(start + 1, 1) EXCEPT !["datetime"] = Undefined]>>)

\* a list that is not in date order and names one day twice
Unordered(start) ==
    Array(<<RawDay(start + 1, 1), RawDay(start, 1), RawDay(start, 2)>>)

\* what response.data can be when the provider answers on day clk
ProviderData(clk) ==
    {[forecast |-> Daily(clk + s, n, v)] : s \in Skews, n \in 0..MaxRaw, v \in Variants}
    \cup {[forecast |-> NoDatetime(clk)], [forecast |-> Unordered(clk)],
          [forecast |-> Undefined]}

(***************************************************************************)
(* Normalization of one raw day record (the miss path)                     *)
(***************************************************************************)
\* the 4 of slice(0, 4), of LIMIT 4 and of fetchForecast(insee, 4)
Limit == 4

\* forecast.datetime.split('T')[0]
DateOf(f) == f.datetime.date

\* faulty variant: the chain has no final default
TemperatureNoDefault(f) == JsOr(f.temp2m, JsDiv(JsAdd(f.tmin, f.tmax), 2))

\* faulty variant: tmin and tmax are added but not halved
TemperatureNotHalved(f) == JsOr(JsOr(f.temp2m, JsAdd(f.tmin, f.tmax)), Num(0))

\* forecast.temp2m || ((forecast.tmin + forecast.tmax) / 2) || 0
Temperature(f) == JsOr(JsOr(f.temp2m, JsDiv(JsAdd(f.tmin, f.tmax), 2)), Num(0))

\* forecast.probarain || forecast.probrain || 0
RainProbability(f) == JsOr(JsOr(f.probarain, f.probrain), Num(0))

\* the object literal the handler builds from a raw day record
Details(f) ==
    [temperature |-> Temperature(f),
     humidity |-> JsOr(JsOr(f.rh2m, f.humidity), Num(0)),
     pressure |-> JsOr(JsOr(f.pmer, f.pressure), Num(0)),
     wind_speed |-> JsOr(JsOr(f.wind10m, f.wind_speed), Num(0)),
     wind_gust |-> JsOr(JsOr(f.gust10m, f.wind_gust), Num(0)),
     wind_direction |-> JsOr(JsOr(f.dirwind10m, f.wind_direction), Num(0)),
     weather_code |-> JsOr(JsOr(f.weather, f.weather_code), Num(0)),
     rain_probability |-> RainProbability(f),
     tmin |-> JsOr(f.tmin, Temperature(f)),
     tmax |-> JsOr(f.tmax, Temperature(f))]

\* the keys of the details object, in the order the literal lists them
DetailKeys ==
    <<"temperature", "humidity", "pressure", "wind_speed", "wind_gust",
      "wind_direction", "weather_code", "rain_probability", "tmin", "tmax">>

\* the window entry of the miss path: the date and the details fields
NormalizedDay(f) == [date |-> DateOf(f)] @@ Details(f)

\* faulty variant: the whole list is kept
SliceAll(items) == items

\* apiResponse.forecast.slice(0, 4)
Slice(items) == SubSeq(items, 1, IF Len(items) < Limit THEN Len(items) ELSE Limit)

(***************************************************************************)
(* JSON.stringify and JSON.parse of a details object.  The text is the     *)
(* list of its "key": value members in order; a key whose value is         *)
(* undefined is left out and NaN is written as null.                       *)
(***************************************************************************)
JsonValue(x) == IF IsNum(x) THEN x ELSE Null

RECURSIVE Members(_, _, _)
Members(obj, keys, i) ==
    IF i > Len(keys) THEN <<>>
    ELSE (IF obj[keys[i]] = Undefined THEN <<>> ELSE <<<<keys[i], JsonValue(obj[keys[i]])>>>>)
         \o Members(obj, keys, i + 1)

\* faulty variant: the members whose value is 0 are left out of the text
StringifyNonZero(obj) ==
    SelectSeq(Members(obj, DetailKeys, 1), LAMBDA m : m[2] # Num(0))

\* JSON.stringify of the details object
Stringify(obj) == Members(obj, DetailKeys, 1)

\* the object a JSON text denotes: for a repeated key the last member wins
Parse(text) ==
    [k \in {text[i][1] : i \in 1..Len(text)} |->
        text[CHOOSE i \in 1..Len(text) :
                /\ text[i][1] = k
                /\ \A j \in (i + 1)..Len(text) : text[j][1] # k][2]]

(***************************************************************************)
(* The SQL statements of the handler, on tables held as sets of rows       *)
(***************************************************************************)
\* SELECT * FROM city WHERE insee = ?
SelectCity(table, insee) == {c \in table : c.insee = insee}

\* faulty variant: the comparison is strict, so a row dated today does not count
SelectFreshStrict(table, insee, today) ==
    {f \in table : f.insee = insee /\ f.date > today}

\* SELECT * FROM forecast WHERE insee = ? AND date >= ?
SelectFresh(table, insee, today) ==
    {f \in table : f.insee = insee /\ f.date >= today}

RECURSIVE OrderByDateDesc(_)
\* faulty variant: the rows come latest first
OrderByDateDesc(rows) ==
    IF rows = {} THEN <<>>
    ELSE LET first == CHOOSE f \in rows : \A g \in rows : f.date >= g.date
         IN  <<first>> \o OrderByDateDesc(rows \ {first})

RECURSIVE OrderByDate(_)
\* ORDER BY date
OrderByDate(rows) ==
    IF rows = {} THEN <<>>
    ELSE LET first == CHOOSE f \in rows : \A g \in rows : f.date <= g.date
         IN  <<first>> \o OrderByDate(rows \ {first})

\* faulty variant: the window query has no LIMIT
SelectWindowNoLimit(table, insee, today) ==
    OrderByDate(SelectFresh(table, insee, today))

\* SELECT * FROM forecast WHERE insee = ? AND date >= ? ORDER BY date LIMIT 4
SelectWindow(table, insee, today) ==
    LET sorted == OrderByDate(SelectFresh(table, insee, today))
    IN  SubSeq(sorted, 1, IF Len(sorted) < Limit THEN Len(sorted) ELSE Limit)

\* faulty variant: a plain insert into a table with no key
InsertAppend(table, row) == table \cup {row}

\* faulty variant: the key is the date alone
InsertOrReplaceByDate(table, row) ==
    {f \in table : f.date # row.date} \cup {row}

\* INSERT OR REPLACE INTO forecast (insee, date, details) VALUES (?, ?, ?)
\* under PRIMARY KEY (insee, date)
InsertOrReplace(table, row) ==
    {f \in table : ~(f.insee = row.insee /\ f.date = row.date)} \cup {row}

\* allForecasts.map(f => ({ date: f.date, ...JSON.parse(f.details) }))
CachedDay(f) == Parse(f.details) @@ [date |-> f.date]

(***************************************************************************)
(* Statistics over the window                                              *)
(***************************************************************************)
\* obj.key: undefined when the object has no such key
Field(obj, key) == IF key \in DOMAIN obj THEN obj[key] ELSE Undefined

\* forecastData.filter(d => d.temperature != null && d.temperature > 0)
ValidTemperatures(forecastData) ==
    SelectSeq(forecastData, LAMBDA d : JsPositive(Field(d, "temperature")))

RECURSIVE RainSum(_, _)
\* forecastData.reduce((sum, day) => sum + (day.rain_probability || 0), 0)
RainSum(data, i) ==
    IF i = 0 THEN Num(0)
    ELSE JsAdd(RainSum(data, i - 1), JsOr(Field(data[i], "rain_probability"), Num(0)))

RECURSIVE TemperatureSum(_, _)
\* validTemperatures.reduce((sum, day) => sum + day.temperature, 0)
TemperatureSum(data, i) ==
    IF i = 0 THEN Num(0)
    ELSE JsAdd(TemperatureSum(data, i - 1), Field(data[i], "temperature"))

\* faulty variant: the temperatures are averaged over every entry
StatisticsOverAll(forecastData) ==
    LET valid == ValidTemperatures(forecastData)
    IN  [rain_sum |-> RainSum(forecastData, Len(forecastData)),
         avg_temperature |->
            IF Len(forecastData) > 0
            THEN JsDiv(TemperatureSum(valid, Len(valid)), Len(forecastData))
            ELSE Num(0),
         day_count |-> Len(forecastData)]

\* rainSum, avgTemperature and dayCount of the window
Statistics(forecastData) ==
    LET valid == ValidTemperatures(forecastData)
    IN  [rain_sum |-> RainSum(forecastData, Len(forecastData)),
         avg_temperature |->
            IF Len(valid) > 0
            THEN JsDiv(TemperatureSum(valid, Len(valid)), Len(valid))
            ELSE Num(0),
         day_count |-> Len(forecastData)]

(***************************************************************************)
(* Requests                                                                *)
(***************************************************************************)
\* INSEE codes as lists of characters
Paris == <<"7", "5", "1", "0", "1">>
Unknown == <<"0", "0", "0", "0", "0">>
TooShort == <<"1", "2", "3">>
NotDigits == <<"A", "B", "C", "D", "E">>
TooLong == <<"1", "2", "3", "4", "5", "6", "7">>

\* the signals the process receives at most
MaxSignals == 3

\* the location codes requests carry
InseeInputs == {Paris, Unknown, TooShort, NotDigits, TooLong}

Digits == {"0", "1", "2", "3", "4", "5", "6", "7", "8", "9"}

\* /^\d{5,6}$/.test(insee)
ValidInsee(insee) ==
    /\ Len(insee) \in 5..6
    /\ \A i \in 1..Len(insee) : insee[i] \in Digits

\* the seed rows of the city table that the model keeps
SeedCities ==
    {[insee |-> Paris, name |-> "Paris 1er Arrondissement",
      zipcode |-> <<"7", "5", "0", "0", "1">>, population |-> 16888]}

\* a request slot with no request in it
IdleReq ==
    [pc |-> "idle",         \* the await the request is suspended at
     insee |-> <<>>,        \* req.params.insee
     city |-> Undefined,    \* the city row
     today |-> 0,           \* new Date().toISOString().split('T')[0]
     forecasts |-> <<>>,    \* apiResponse.forecast.slice(0, 4)
     i |-> 0,               \* the position of the persist loop
     sent |-> <<>>,         \* the responses written to res
     path |-> "none",       \* history: "hit" or "miss" once decided
     apiCalls |-> 0,        \* history: provider calls issued
     reads |-> 0,           \* history: forecast-table reads issued
     written |-> {},        \* history: forecast rows this request upserted
     raw |-> <<>>,          \* history: the list the provider returned
     before |-> {},         \* history: the forecast table on arrival, while in flight
     cause |-> "none"]      \* history: what made the request fail

\* res.status(status).json(body): the handler returns
Respond(q, status, body) ==
    [q EXCEPT !.pc = "done",
              !.sent = Append(@, [status |-> status, body |-> body]),
              !.forecasts = <<>>,
              !.i = 0,
              !.before = {}]

\* faulty variant: the error response also carries what was fetched so far
CatchErrorPartial(q) ==
    Respond(q, 500, [error |-> "Failed to fetch weather data",
                     forecast |-> q.forecasts])

\* catch (error): res.status(500).json({ error: 'Failed to fetch weather data' })
CatchError(q) ==
    Respond(q, 500, [error |-> "Failed to fetch weather data"])

\* an awaited operation rejects, or the code throws, inside the try block
Throw(q, cause) == CatchError([q EXCEPT !.cause = cause])

\* the statistics and res.json({ city, forecast, statistics })
RespondForecast(q, forecastData) ==
    Respond(q, 200,
            [city |-> [insee |-> q.city.insee, name |-> q.city.name,
                       zipcode |-> q.city.zipcode, population |-> q.city.population],
             forecast |-> forecastData,
             statistics |-> Statistics(forecastData)])

\* forecasts.map(f => ({ date: f.datetime.split('T')[0], ... }))
MissWindow(forecasts) == [k \in 1..Len(forecasts) |-> NormalizedDay(forecasts[k])]

\* the row the loop upserts for forecasts[i]
RowOf(q, i) ==
    [insee |-> q.insee, date |-> DateOf(q.forecasts[i]),
     details |-> Stringify(Details(q.forecasts[i]))]

\* the head of one loop iteration, up to its await; past the last raw
\* record, the rest of the handler.  forecast.datetime.split throws a
\* TypeError when the record has no datetime.
LoopFrom(q, i) ==
    IF i > Len(q.forecasts)
    THEN RespondForecast(q, MissWindow(q.forecasts))
    ELSE IF q.forecasts[i].datetime = Undefined
         THEN Throw(q, "payload")
         ELSE [q EXCEPT !.pc = "persist", !.i = i]

\* faulty variant: the city lookup is issued whatever the code looks like
ArriveUnchecked(q, insee) ==
    [IdleReq EXCEPT !.insee = insee, !.pc = "lookup", !.before = forecast]

\* a request arrives: the format check, then the city lookup is issued
Arrive(q, insee) ==
    IF ~ValidInsee(insee)
    THEN Respond([IdleReq EXCEPT !.insee = insee, !.cause = "format"], 400,
                 [error |-> "Invalid INSEE code format"])
    ELSE [IdleReq EXCEPT !.insee = insee, !.pc = "lookup", !.before = forecast]

\* faulty variant: the freshness query is issued before the city is checked
AfterLookupLate(q, ok) ==
    IF ~ok THEN Throw(q, "storage")
    ELSE IF SelectCity(city, q.insee) = {}
         THEN Respond([q EXCEPT !.reads = @ + 1, !.cause = "notfound"], 404,
                      [error |-> "City not found"])
         ELSE [q EXCEPT !.pc = "check",
                        !.city = CHOOSE c \in SelectCity(city, q.insee) : TRUE,
                        !.today = clock,
                        !.reads = @ + 1]

\* the city lookup returns; on a known city the freshness query is issued
AfterLookup(q, ok) ==
    IF ~ok THEN Throw(q, "storage")
    ELSE IF SelectCity(city, q.insee) = {}
         THEN Respond([q EXCEPT !.cause = "notfound"], 404, [error |-> "City not found"])
         ELSE [q EXCEPT !.pc = "check",
                        !.city = CHOOSE c \in SelectCity(city, q.insee) : TRUE,
                        !.today = clock,
                        !.reads = @ + 1]

\* faulty variant: a stored window of fewer than 4 days is topped up from the provider
AfterCheckTopUp(q, ok, apiKey) ==
    IF ~ok THEN Throw(q, "storage")
    ELSE IF Cardinality(SelectFresh(forecast, q.insee, q.today)) >= Limit
         THEN [q EXCEPT !.pc = "load", !.path = "hit", !.reads = @ + 1]
         ELSE IF ~apiKey
              THEN Throw([q EXCEPT !.path = "miss"], "config")
              ELSE [q EXCEPT !.pc = "fetch", !.path = "miss", !.apiCalls = @ + 1]

\* faulty variant: a hit whose stored window is short goes on to the
\* provider call and the persist loop
AfterCheckRefetch(q, ok, apiKey) ==
    IF ~ok THEN Throw(q, "storage")
    ELSE IF SelectFresh(forecast, q.insee, q.today) = {}
         THEN IF ~apiKey
              THEN Throw([q EXCEPT !.path = "miss"], "config")
              ELSE [q EXCEPT !.pc = "fetch", !.path = "miss", !.apiCalls = @ + 1]
         ELSE IF Cardinality(SelectFresh(forecast, q.insee, q.today)) >= Limit
              THEN [q EXCEPT !.pc = "load", !.path = "hit", !.reads = @ + 1]
              ELSE [q EXCEPT !.pc = "fetch", !.path = "hit", !.apiCalls = @ + 1]

\* the freshness query returns: the window query is issued on a hit; on a
\* miss the service is constructed (it throws with no API key) and the
\* provider call is issued
AfterCheck(q, ok, apiKey) ==
    IF ~ok THEN Throw(q, "storage")
    ELSE IF SelectFresh(forecast, q.insee, q.today) # {}
         THEN [q EXCEPT !.pc = "load", !.path = "hit", !.reads = @ + 1]
         ELSE IF ~apiKey
              THEN Throw([q EXCEPT !.path = "miss"], "config")
              ELSE [q EXCEPT !.pc = "fetch", !.path = "miss", !.apiCalls = @ + 1]

\* the window query returns
AfterLoad(q, ok) ==
    IF ~ok THEN Throw(q, "storage")
    ELSE LET allForecasts == SelectWindow(forecast, q.insee, q.today)
         IN  RespondForecast(q, [k \in 1..Len(allForecasts) |-> CachedDay(allForecasts[k])])

\* faulty variant: when the provider call throws, the stored rows are served
AfterFetchFallback(q, data) ==
    IF data = [forecast |-> Null]
    THEN LET stored == OrderByDate({f \in forecast : f.insee = q.insee})
         IN  RespondForecast([q EXCEPT !.cause = "upstream"],
                             [k \in 1..Len(stored) |-> CachedDay(stored[k])])
    ELSE IF data.forecast = Undefined
         THEN Throw(q, "payload")
         ELSE LoopFrom([q EXCEPT !.forecasts = Slice(data.forecast.items),
                                 !.raw = data.forecast.items], 1)

\* faulty variant: a provider call that throws is issued a second time
AfterFetchRetry(q, data) ==
    IF data = [forecast |-> Null]
    THEN IF q.apiCalls < 2
         THEN [q EXCEPT !.apiCalls = @ + 1]
         ELSE Throw(q, "upstream")
    ELSE IF data.forecast = Undefined
         THEN Throw(q, "payload")
         ELSE LoopFrom([q EXCEPT !.forecasts = Slice(data.forecast.items),
                                 !.raw = data.forecast.items], 1)

\* the provider call returns data, or throws
AfterFetch(q, data) ==
    IF data = [forecast |-> Null] THEN Throw(q, "upstream")
    ELSE IF data.forecast = Undefined
         THEN Throw(q, "payload")
         ELSE LoopFrom([q EXCEPT !.forecasts = Slice(data.forecast.items),
                                 !.raw = data.forecast.items], 1)

\* faulty variant: after an upsert the loop passes over the next record
AfterPersistSkipping(q, ok) ==
    IF ~ok THEN Throw(q, "storage")
    ELSE LoopFrom([q EXCEPT !.written = @ \cup {RowOf(q, q.i)}], q.i + 2)

\* one upsert returns
AfterPersist(q, ok) ==
    IF ~ok THEN Throw(q, "storage")
    ELSE LoopFrom([q EXCEPT !.written = @ \cup {RowOf(q, q.i)}], q.i + 1)

(***************************************************************************)
(* The cities handlers: requests and their continuations                   *)
(***************************************************************************)
\* the request slots of POST /cities
PostIds == {"p1", "p2"}
\* the slot used when POST /cities requests come one at a time
SerialPost == {"p1"}

Lyon == <<"6", "9", "1", "2", "3">>

\* a JavaScript string
Str(s) == [t |-> "string", s |-> s]

RECURSIVE NumberToString(_)
\* n.toString() for a non-negative integer: its decimal digits
NumberToString(n) ==
    LET digit == <<"0", "1", "2", "3", "4", "5", "6", "7", "8", "9">>[(n % 10) + 1]
    IN  IF n < 10 THEN <<digit>> ELSE Append(NumberToString(n \div 10), digit)

\* str.substring(0, k)
Substring(str, k) == SubSeq(str, 1, IF Len(str) < k THEN Len(str) ELSE k)

\* the bodies POST /cities requests carry: none of the fields, a code that
\* is too short, a registered code, a code that is not registered
PostBodies ==
    {[insee |-> Undefined], [insee |-> Str(TooShort)],
     [insee |-> Str(Paris)], [insee |-> Str(Lyon)]}

\* the name the provider knows a code by
NameOf(insee) == IF insee = Paris THEN "Paris 1er Arrondissement" ELSE "Lyon"

\* what response.data can be when the provider answers nextHours for insee:
\* the city with its postal code as a number, the city with nothing but its
\* code, the city with a short postal code and a negative population, the
\* city with a zipcode text and population 0, and a payload with no city
CityData(insee) ==
    {[city |-> [insee |-> Str(insee), name |-> Str(NameOf(insee)), cp |-> Num(69001),
                zipcode |-> Undefined, population |-> Num(515695)]],
     [city |-> [insee |-> Str(insee), name |-> Undefined, cp |-> Undefined,
                zipcode |-> Undefined, population |-> Undefined]],
     [city |-> [insee |-> Str(insee), name |-> Str(NameOf(insee)), cp |-> Num(1000),
                zipcode |-> Undefined, population |-> Num(-100)]],
     [city |-> [insee |-> Str(insee), name |-> Str(NameOf(insee)), cp |-> Undefined,
                zipcode |-> Str(<<"6", "9", "0", "0", "0">>), population |-> Num(0)]],
     [city |-> Undefined]}

\* faulty variant: any string is accepted as a code
ValidCreateCityAnyLength(body) == body.insee # Undefined

\* CreateCitySchema.parse(req.body) succeeds
ValidCreateCity(body) == body.insee # Undefined /\ Len(body.insee.s) >= 5

\* CitySchema accepts the row
ValidCity(row) ==
    /\ Len(row.insee) >= 5
    /\ row.name # ""
    /\ Len(row.zipcode) >= 5
    /\ row.population > 0

\* the names of the model in the order of SQLite's text comparison
NameOrder == <<"Bordeaux", "Lyon", "Paris 1er Arrondissement", "Unknown City">>

NameRank(name) == CHOOSE k \in 1..Len(NameOrder) : NameOrder[k] = name

RECURSIVE OrderByName(_)
\* ORDER BY name
OrderByName(rows) ==
    IF rows = {} THEN <<>>
    ELSE LET first == CHOOSE c \in rows :
                         \A d \in rows : NameRank(c.name) <= NameRank(d.name)
         IN  <<first>> \o OrderByName(rows \ {first})

\* SELECT insee, name, zipcode, population FROM city ORDER BY name
SelectCities(table) ==
    LET sorted == OrderByName(table)
    IN  [k \in 1..Len(sorted) |->
            [insee |-> sorted[k].insee, name |-> sorted[k].name,
             zipcode |-> sorted[k].zipcode, population |-> sorted[k].population]]

\* the values of the INSERT INTO city and the body of the 201 response
NewCity(cityInfo) ==
    [insee |-> cityInfo.insee.s,
     name |-> IF cityInfo.name = Undefined THEN "Unknown City" ELSE cityInfo.name.s,
     zipcode |-> IF cityInfo.cp # Undefined THEN NumberToString(cityInfo.cp.n)
                 ELSE IF cityInfo.zipcode # Undefined THEN cityInfo.zipcode.s
                      ELSE Substring(cityInfo.insee.s, 5),
     population |-> JsOr(cityInfo.population, Num(1000)).n]

\* a POST /cities slot with no request in it
IdlePost ==
    [pc |-> "idle",         \* the await the request is suspended at
     body |-> Undefined,    \* req.body
     insee |-> <<>>,        \* validatedRequest.insee
     cityInfo |-> Undefined,\* apiResponse.city
     sent |-> <<>>,         \* the responses written to res
     apiCalls |-> 0,        \* history: provider calls issued
     reads |-> 0,           \* history: city-table reads issued
     inserts |-> 0,         \* history: city-table inserts issued
     inserted |-> {},       \* history: the city rows this request inserted
     cause |-> "none"]      \* history: what made the request fail

\* res.status(status).json(body) of POST /cities
PostRespond(q, status, body) ==
    [q EXCEPT !.pc = "done",
              !.sent = Append(@, [status |-> status, body |-> body]),
              !.cityInfo = Undefined]

\* catch (error) of POST /cities, for an error that is no ZodError
PostThrow(q, cause, message) ==
    PostRespond([q EXCEPT !.cause = cause], 500,
                [error |-> "Failed to add city", details |-> message])

\* a POST /cities request arrives: the body is parsed, then the lookup of
\* the code is issued; a ZodError is answered 400
PostArrive(q, body) ==
    IF ~ValidCreateCity(body)
    THEN PostRespond([IdlePost EXCEPT !.body = body, !.cause = "format"], 400,
                     [error |-> "Invalid request data", details |-> "ZodError"])
    ELSE [IdlePost EXCEPT !.body = body, !.pc = "exists",
                          !.insee = body.insee.s, !.reads = 1]

\* faulty variant: a stored code is not answered 409 but goes on to the provider
AfterExistsUnchecked(q, ok, apiKey) ==
    IF ~ok THEN PostThrow(q, "storage", "SQLITE_ERROR")
    ELSE IF ~apiKey
         THEN PostThrow(q, "config", "API key is required")
         ELSE [q EXCEPT !.pc = "fetch", !.apiCalls = @ + 1]

\* the lookup returns: 409 for a stored code; else the service is
\* constructed (it throws with no API key) and the provider is called
AfterExists(q, ok, apiKey) ==
    IF ~ok THEN PostThrow(q, "storage", "SQLITE_ERROR")
    ELSE IF SelectCity(city, q.insee) # {}
         THEN PostRespond([q EXCEPT !.cause = "exists"], 409,
                          [error |-> "City already exists"])
         ELSE IF ~apiKey
              THEN PostThrow(q, "config", "API key is required")
              ELSE [q EXCEPT !.pc = "fetch", !.apiCalls = @ + 1]

\* faulty variant: when the provider call throws, the city is inserted
\* with nothing but its code
AfterFetchCurrentFallback(q, data) ==
    IF data = [city |-> Null]
    THEN [q EXCEPT !.pc = "insert", !.cause = "upstream", !.inserts = @ + 1,
                   !.cityInfo = [insee |-> Str(q.insee), name |-> Undefined,
                                 cp |-> Undefined, zipcode |-> Undefined,
                                 population |-> Undefined]]
    ELSE IF data.city = Undefined
         THEN PostThrow(q, "payload", "TypeError")
         ELSE [q EXCEPT !.pc = "insert", !.cityInfo = data.city, !.inserts = @ + 1]

\* the provider call returns data, or throws; reading cityInfo.insee of a
\* payload with no city throws a TypeError; else the insert is issued
AfterFetchCurrent(q, data) ==
    IF data = [city |-> Null]
    THEN PostThrow(q, "upstream", "Failed to fetch current weather")
    ELSE IF data.city = Undefined
         THEN PostThrow(q, "payload", "TypeError")
         ELSE [q EXCEPT !.pc = "insert", !.cityInfo = data.city, !.inserts = @ + 1]

\* the insert returns: it fails when the statement fails, and under
\* insee TEXT PRIMARY KEY when the table holds the code by now
InsertSucceeds(q, ok) == ok /\ SelectCity(city, NewCity(q.cityInfo).insee) = {}

AfterInsert(q, ok) ==
    IF ~InsertSucceeds(q, ok) THEN PostThrow(q, "storage", "SQLITE_CONSTRAINT")
    ELSE PostRespond([q EXCEPT !.inserted = @ \cup {NewCity(q.cityInfo)}], 201,
                     NewCity(q.cityInfo))

\* the GET /cities slot with no request in it
IdleList == [pc |-> "idle", sent |-> <<>>, cause |-> "none"]

\* faulty variant: the rows that are no City are left out of the list
AfterAllPartial(q, ok) ==
    IF ~ok
    THEN [q EXCEPT !.pc = "done", !.cause = "storage",
                   !.sent = Append(@, [status |-> 500,
                                       body |-> [error |-> "Failed to fetch cities"]])]
    ELSE [q EXCEPT !.pc = "done",
                   !.sent = Append(@, [status |-> 200,
                                       body |-> SelectCities({c \in city : ValidCity(c)})])]

\* the rows of GET /cities return: CitiesSchema.parse throws when a row is
\* not a City, and the catch answers 500
AfterAll(q, ok) ==
    IF ~ok \/ \E c \in city : ~ValidCity(c)
    THEN [q EXCEPT !.pc = "done", !.cause = IF ok THEN "schema" ELSE "storage",
                   !.sent = Append(@, [status |-> 500,
                                       body |-> [error |-> "Failed to fetch cities"]])]
    ELSE [q EXCEPT !.pc = "done",
                   !.sent = Append(@, [status |-> 200, body |-> SelectCities(city)])]

(***************************************************************************)
(* createApp: the lazy initialization middleware in front of the routes    *)
(***************************************************************************)
AppIds == {"a1", "a2", "a3"}

\* the requests an app instance receives
Targets ==
    {[method |-> "GET", path |-> "/"], [method |-> "POST", path |-> "/"],
     [method |-> "GET", path |-> "/cities"]}

\* let database, let apiRoutesRouter: both undefined
IdleApp ==
    [database |-> Undefined,        \* the Database object: its number and state
     apiRoutesRouter |-> Undefined, \* the router and the database it closes over
     constructed |-> 0,             \* history: new Database() calls
     initialized |-> 0,             \* history: database.init() calls
     routers |-> 0]                 \* history: createAPIRoutes calls

\* an app request slot with no request in it
IdleAppReq ==
    [pc |-> "idle",         \* the await the request is suspended at
     target |-> Undefined,  \* req.method and req.path
     database |-> 0,        \* req.database, by number
     routedBy |-> 0,        \* history: the database of the router that took it
     sent |-> <<>>]         \* the responses written to res

AppRespond(q, status, body) ==
    [q EXCEPT !.pc = "done", !.sent = Append(@, [status |-> status, body |-> body])]

\* faulty variant: the database is constructed until the router exists
NeedsInitUntilRouted(a) == a.apiRoutesRouter = Undefined

\* if (!database)
NeedsInit(a) == a.database = Undefined

\* the middleware past its if block: req.database is set, the root path
\* goes on to the 404 handler, every other path to apiRoutesRouter, and
\* calling an undefined apiRoutesRouter throws into the catch block
Dispatch(a, q) ==
    LET tagged == [q EXCEPT !.database = a.database.id]
    IN  IF q.target.path = "/"
        THEN AppRespond(tagged, 404, [error |-> "Route not found"])
        ELSE IF a.apiRoutesRouter = Undefined
             THEN AppRespond(tagged, 500, [error |-> "Database initialization failed"])
             ELSE [tagged EXCEPT !.pc = "routes",
                                 !.routedBy = a.apiRoutesRouter.database]

\* database = new Database(); database.init() is called and awaited
Construct(a) ==
    [a EXCEPT !.database = [id |-> a.constructed + 1, state |-> "opening"],
              !.constructed = @ + 1,
              !.initialized = @ + 1]

\* database.init() resolved: apiRoutesRouter = createAPIRoutes(database)
Routed(a) ==
    [a EXCEPT !.database.state = "ready",
              !.apiRoutesRouter = [database |-> a.database.id],
              !.routers = @ + 1]

(***************************************************************************)
(* The state machine                                                       *)
(***************************************************************************)
\* nothing outside the API routes has started
RestIdle ==
    /\ app = IdleApp
    /\ areq = [a \in AppIds |-> IdleAppReq]
    /\ dbh = Undefined
    /\ boot = Undefined
    /\ page = Undefined
    /\ server = Undefined

Init ==
    /\ city = SeedCities
    /\ forecast = {}
    /\ clock = 0
    /\ req = [r \in ReqIds |-> IdleReq]
    /\ norm = [raw |-> NoFields, day |-> Undefined]
    /\ post = [p \in PostIds |-> IdlePost]
    /\ list = IdleList
    /\ RestIdle

\* the first request of a slot arrives
Start(r) ==
    /\ req[r].pc = "idle"
    /\ \E insee \in InseeInputs : req' = [req EXCEPT ![r] = Arrive(@, insee)]
    /\ UNCHANGED <<city, forecast, clock, norm, post, list, rest>>

\* a slot whose request was answered takes the next request
StartNext(r) ==
    /\ req[r].pc = "done"
    /\ \E insee \in InseeInputs : req' = [req EXCEPT ![r] = Arrive(@, insee)]
    /\ UNCHANGED <<city, forecast, clock, norm, post, list, rest>>

LookupCity(r) ==
    /\ req[r].pc = "lookup"
    /\ \E ok \in BOOLEAN : req' = [req EXCEPT ![r] = AfterLookup(@, ok)]
    /\ UNCHANGED <<city, forecast, clock, norm, post, list, rest>>

CheckFresh(r) ==
    /\ req[r].pc = "check"
    /\ \E ok \in BOOLEAN, apiKey \in BOOLEAN :
          req' = [req EXCEPT ![r] = AfterCheck(@, ok, apiKey)]
    /\ UNCHANGED <<city, forecast, clock, norm, post, list, rest>>

LoadCached(r) ==
    /\ req[r].pc = "load"
    /\ \E ok \in BOOLEAN : req' = [req EXCEPT ![r] = AfterLoad(@, ok)]
    /\ UNCHANGED <<city, forecast, clock, norm, post, list, rest>>

FetchForecast(r) ==
    /\ req[r].pc = "fetch"
    /\ \E data \in ProviderData(clock) \cup {[forecast |-> Null]} :
          req' = [req EXCEPT ![r] = AfterFetch(@, data)]
    /\ UNCHANGED <<city, forecast, clock, norm, post, list, rest>>

Persist(r) ==
    /\ req[r].pc = "persist"
    /\ \E ok \in BOOLEAN :
          /\ req' = [req EXCEPT ![r] = AfterPersist(@, ok)]
          /\ forecast' = IF ok THEN InsertOrReplace(forecast, RowOf(req[r], req[r].i))
                               ELSE forecast
    /\ UNCHANGED <<city, clock, norm, post, list, rest>>

\* midnight UTC
Tick ==
    /\ clock < MaxDay
    /\ clock' = clock + 1
    /\ UNCHANGED <<city, forecast, req, norm, post, list, rest>>

Step(r) ==
    \/ LookupCity(r)
    \/ CheckFresh(r)
    \/ LoadCached(r)
    \/ FetchForecast(r)
    \/ Persist(r)

\* one request at a time, over the days 0..MaxDay
Next ==
    \/ \E r \in Serial : Start(r)
    \/ \E r \in Serial : StartNext(r)
    \/ \E r \in Serial : Step(r)
    \/ Tick

Spec == Init /\ [][Next]_vars

\* two requests in flight at once, within one calendar day
NextRace ==
    \/ \E r \in ReqIds : Start(r)
    \/ \E r \in ReqIds : StartNext(r)
    \/ \E r \in ReqIds : Step(r)

SpecRace == Init /\ [][NextRace]_vars

(***************************************************************************)
(* Two registered locations: one request at a time, for either of them,    *)
(* within one calendar day.                                                *)
(***************************************************************************)
\* the seed row of Lyon
LyonCity ==
    [insee |-> Lyon, name |-> "Lyon",
     zipcode |-> <<"6", "9", "0", "0", "0">>, population |-> 515695]

\* the location codes of the two registered locations
TwoInsee == {Paris, Lyon}

InitTwo ==
    /\ city = SeedCities \cup {LyonCity}
    /\ forecast = {}
    /\ clock = 0
    /\ req = [r \in ReqIds |-> IdleReq]
    /\ norm = [raw |-> NoFields, day |-> Undefined]
    /\ post = [p \in PostIds |-> IdlePost]
    /\ list = IdleList
    /\ RestIdle

\* a request for one of the two locations arrives at a free slot
StartTwo(r) ==
    /\ req[r].pc \in {"idle", "done"}
    /\ \E insee \in TwoInsee : req' = [req EXCEPT ![r] = Arrive(@, insee)]
    /\ UNCHANGED <<city, forecast, clock, norm, post, list, rest>>

NextTwo ==
    \/ \E r \in Serial : StartTwo(r)
    \/ \E r \in Serial : Step(r)

SpecTwo == InitTwo /\ [][NextTwo]_vars

(***************************************************************************)
(* Normalization on its own: one raw day record, drawn from the records    *)
(* below, goes through one iteration of the handler's loop and map.        *)
(***************************************************************************)
\* a field of a raw record: absent, present with 0, or present with n
Shapes == {"absent", "zero", "value"}

Shaped(shape, n) ==
    IF shape = "absent" THEN Undefined
    ELSE IF shape = "zero" THEN Num(0) ELSE Num(n)

\* raw day records: every presence pattern of datetime, of the three
\* temperature fields, of the rain pair and of the six other pairs
RawInputs ==
    {[NoFields EXCEPT
        !["datetime"] = dt,
        !["temp2m"] = t, !["tmin"] = lo, !["tmax"] = hi,
        !["probarain"] = Shaped(p[1], 40), !["probrain"] = Shaped(p[2], 7),
        !["rh2m"] = Shaped(o[1], 65), !["humidity"] = Shaped(o[2], 80),
        !["pmer"] = Shaped(o[1], 1020), !["pressure"] = Shaped(o[2], 1013),
        !["wind10m"] = Shaped(o[1], 15), !["wind_speed"] = Shaped(o[2], 12),
        !["gust10m"] = Shaped(o[1], 30), !["wind_gust"] = Shaped(o[2], 25),
        !["dirwind10m"] = Shaped(o[1], 270), !["wind_direction"] = Shaped(o[2], 180),
        !["weather"] = Shaped(o[1], 3), !["weather_code"] = Shaped(o[2], 1)]
     : dt \in {Timestamp(0), Undefined},
       t \in {Undefined, Num(0), Num(5), Num(-3)},
       lo \in {Undefined, Num(0), Num(2), Num(-10)},
       hi \in {Undefined, Num(0), Num(10)},
       p \in Shapes \X Shapes,
       o \in Shapes \X Shapes}

\* what evaluating forecast.datetime.split on undefined throws
TypeError == [t |-> "TypeError"]

InitNorm ==
    /\ city = SeedCities
    /\ forecast = {}
    /\ clock = 0
    /\ req = [r \in ReqIds |-> IdleReq]
    /\ norm \in {[raw |-> f, day |-> Undefined] : f \in RawInputs}
    /\ post = [p \in PostIds |-> IdlePost]
    /\ list = IdleList
    /\ RestIdle

\* one raw record is normalized
Normalize ==
    /\ norm.day = Undefined
    /\ norm' = [norm EXCEPT !.day = IF norm.raw.datetime = Undefined
                                    THEN TypeError
                                    ELSE NormalizedDay(norm.raw)]
    /\ UNCHANGED <<city, forecast, clock, req, post, list, rest>>

NextNorm == Normalize

SpecNorm == InitNorm /\ [][NextNorm]_vars

(***************************************************************************)
(* The cities handlers on their own, over a city table that starts as the  *)
(* seed, as an empty table or as the table of the test with a city of      *)
(* population 0                                                            *)
(***************************************************************************)
Bordeaux ==
    [insee |-> <<"3", "3", "0", "6", "3">>, name |-> "Bordeaux",
     zipcode |-> <<"3", "3", "0", "0", "0">>, population |-> 0]

CityTables == {SeedCities, {}, {Bordeaux}}

InitCities ==
    /\ city \in CityTables
    /\ forecast = {}
    /\ clock = 0
    /\ req = [r \in ReqIds |-> IdleReq]
    /\ norm = [raw |-> NoFields, day |-> Undefined]
    /\ post = [p \in PostIds |-> IdlePost]
    /\ list = IdleList
    /\ RestIdle

\* a POST /cities request arrives at a free slot
PostStart(p) ==
    /\ post[p].pc \in {"idle", "done"}
    /\ \E body \in PostBodies : post' = [post EXCEPT ![p] = PostArrive(@, body)]
    /\ UNCHANGED <<city, forecast, clock, req, norm, list, rest>>

PostExists(p) ==
    /\ post[p].pc = "exists"
    /\ \E ok \in BOOLEAN, apiKey \in BOOLEAN :
          post' = [post EXCEPT ![p] = AfterExists(@, ok, apiKey)]
    /\ UNCHANGED <<city, forecast, clock, req, norm, list, rest>>

PostFetch(p) ==
    /\ post[p].pc = "fetch"
    /\ \E data \in CityData(post[p].insee) \cup {[city |-> Null]} :
          post' = [post EXCEPT ![p] = AfterFetchCurrent(@, data)]
    /\ UNCHANGED <<city, forecast, clock, req, norm, list, rest>>

PostInsert(p) ==
    /\ post[p].pc = "insert"
    /\ \E ok \in BOOLEAN :
          /\ post' = [post EXCEPT ![p] = AfterInsert(@, ok)]
          /\ city' = IF InsertSucceeds(post[p], ok)
                      THEN city \cup {NewCity(post[p].cityInfo)}
                      ELSE city
    /\ UNCHANGED <<forecast, clock, req, norm, list, rest>>

\* a GET /cities request arrives and its query is issued
ListStart ==
    /\ list.pc \in {"idle", "done"}
    /\ list' = [IdleList EXCEPT !.pc = "all"]
    /\ UNCHANGED <<city, forecast, clock, req, norm, post, rest>>

ListAll ==
    /\ list.pc = "all"
    /\ \E ok \in BOOLEAN : list' = AfterAll(list, ok)
    /\ UNCHANGED <<city, forecast, clock, req, norm, post, rest>>

PostStep(p) ==
    \/ PostStart(p)
    \/ PostExists(p)
    \/ PostFetch(p)
    \/ PostInsert(p)

\* POST /cities requests one at a time, and GET /cities requests
NextCities ==
    \/ \E p \in SerialPost : PostStep(p)
    \/ ListStart
    \/ ListAll

SpecCities == InitCities /\ [][NextCities]_vars

\* two POST /cities requests in flight at once
NextCitiesRace == \E p \in PostIds : PostStep(p)

SpecCitiesRace == InitCities /\ [][NextCitiesRace]_vars

(***************************************************************************)
(* An app instance on its own: requests arrive at three slots while the    *)
(* database is constructed, initialized, and the routes take over.         *)
(***************************************************************************)
InitApp ==
    /\ city = SeedCities
    /\ forecast = {}
    /\ clock = 0
    /\ req = [r \in ReqIds |-> IdleReq]
    /\ norm = [raw |-> NoFields, day |-> Undefined]
    /\ post = [p \in PostIds |-> IdlePost]
    /\ list = IdleList
    /\ RestIdle

\* a request arrives: GET / is answered by its own route; every other
\* request runs the middleware up to its await or to its end
AppArrive(a) ==
    /\ areq[a].pc \in {"idle", "done"}
    /\ \E target \in Targets :
          LET q == [IdleAppReq EXCEPT !.target = target]
          IN  IF target = [method |-> "GET", path |-> "/"]
              THEN /\ areq' = [areq EXCEPT ![a] =
                                 AppRespond(q, 200, [message |-> "Weather API Server"])]
                   /\ app' = app
              ELSE IF NeedsInit(app)
                   THEN /\ app' = Construct(app)
                        /\ areq' = [areq EXCEPT ![a] = [q EXCEPT !.pc = "init"]]
                   ELSE /\ areq' = [areq EXCEPT ![a] = Dispatch(app, q)]
                        /\ app' = app
    /\ UNCHANGED <<city, forecast, clock, req, norm, post, list, dbh, boot, page, server>>

\* await database.init() returns to the request that called it
AppInit(a) ==
    /\ areq[a].pc = "init"
    /\ \E ok \in BOOLEAN :
          IF ok
          THEN /\ app' = Routed(app)
               /\ areq' = [areq EXCEPT ![a] = Dispatch(Routed(app), @)]
          ELSE /\ app' = [app EXCEPT !.database.state = "failed"]
               /\ areq' = [areq EXCEPT ![a] =
                             AppRespond(@, 500, [error |-> "Database initialization failed"])]
    /\ UNCHANGED <<city, forecast, clock, req, norm, post, list, dbh, boot, page, server>>

\* the route the router matched answers, or the 404 handler when none did
AppRoutes(a) ==
    /\ areq[a].pc = "routes"
    /\ \E status \in {200, 404} :
          areq' = [areq EXCEPT ![a] = AppRespond(@, status, [from |-> "routes"])]
    /\ UNCHANGED <<city, forecast, clock, req, norm, post, list, app, dbh, boot, page, server>>

NextApp ==
    \/ \E a \in AppIds : AppArrive(a)
    \/ \E a \in AppIds : AppInit(a)
    \/ \E a \in AppIds : AppRoutes(a)

SpecApp == InitApp /\ [][NextApp]_vars

(***************************************************************************)
(* The cities page of the web client: the user selects cities and each     *)
(* selection starts a call of fetchWeatherForCity that runs to its end     *)
(* whatever is selected meanwhile.                                         *)
(***************************************************************************)
CallIds == {"c1", "c2", "c3"}

\* the rows of the cities table the user can click
PageCities == SeedCities \cup {LyonCity}

\* a call slot with no call of fetchWeatherForCity in it
IdleCall == [pc |-> "idle", insee |-> <<>>]

\* the refs of the page after setup
IdlePage ==
    [selectedCity |-> Null,
     selectedWeather |-> Null,
     weatherLoading |-> FALSE,
     weatherError |-> Null,
     calls |-> [c \in CallIds |-> IdleCall]]

\* the body of GET /weather/:insee as the page receives it
WeatherOf(insee) == [city |-> [insee |-> insee]]

\* fetchWeatherForCity(insee) up to await fetch(...)
FetchWeatherForCity(pg, c, insee) ==
    [pg EXCEPT !.weatherLoading = TRUE,
               !.weatherError = Null,
               !.selectedWeather = Null,
               !.calls[c] = [pc |-> "fetch", insee |-> insee]]

\* selectCity(city)
selectCity(pg, c, cty) ==
    FetchWeatherForCity([pg EXCEPT !.selectedCity = cty], c, cty.insee)

\* catch (err) and finally
FetchFailed(pg, c, message) ==
    [pg EXCEPT !.weatherError = Str(message),
               !.weatherLoading = FALSE,
               !.calls[c] = IdleCall]

\* await fetch(...) returns: a response that is not ok throws, a rejected
\* fetch throws, an ok response goes on to await response.json()
AfterFetchWeather(pg, c, outcome) ==
    IF outcome = "ok" THEN [pg EXCEPT !.calls[c].pc = "json"]
    ELSE IF outcome = "status" THEN FetchFailed(pg, c, "HTTP error! status: 500")
    ELSE FetchFailed(pg, c, "Failed to fetch")

\* await response.json() returns, then finally
AfterJson(pg, c, ok) ==
    IF ok
    THEN [pg EXCEPT !.selectedWeather = WeatherOf(pg.calls[c].insee),
                    !.weatherLoading = FALSE,
                    !.calls[c] = IdleCall]
    ELSE FetchFailed(pg, c, "Unexpected end of JSON input")

\* what the weather panel shows: the v-if chain of the template
Panel(pg) ==
    IF pg.selectedCity = Null THEN "none"
    ELSE IF pg.weatherLoading THEN "loading"
    ELSE IF pg.weatherError # Null THEN "error"
    ELSE IF pg.selectedWeather # Null THEN "data"
    ELSE "empty"

InitPage ==
    /\ city = SeedCities
    /\ forecast = {}
    /\ clock = 0
    /\ req = [r \in ReqIds |-> IdleReq]
    /\ norm = [raw |-> NoFields, day |-> Undefined]
    /\ post = [p \in PostIds |-> IdlePost]
    /\ list = IdleList
    /\ app = IdleApp
    /\ areq = [a \in AppIds |-> IdleAppReq]
    /\ dbh = Undefined
    /\ boot = Undefined
    /\ page = IdlePage
    /\ server = Undefined

\* the user clicks a row of the cities table
ClickCity(c) ==
    /\ page.calls[c].pc = "idle"
    /\ \E cty \in PageCities : page' = selectCity(page, c, cty)
    /\ UNCHANGED <<city, forecast, clock, req, norm, post, list, app, areq, dbh, boot, server>>

\* the user clicks the retry button of the error panel
ClickRetry(c) ==
    /\ page.calls[c].pc = "idle"
    /\ Panel(page) = "error"
    /\ page' = FetchWeatherForCity(page, c, page.selectedCity.insee)
    /\ UNCHANGED <<city, forecast, clock, req, norm, post, list, app, areq, dbh, boot, server>>

FetchReturns(c) ==
    /\ page.calls[c].pc = "fetch"
    /\ \E outcome \in {"ok", "status", "rejected"} :
          page' = AfterFetchWeather(page, c, outcome)
    /\ UNCHANGED <<city, forecast, clock, req, norm, post, list, app, areq, dbh, boot, server>>

JsonReturns(c) ==
    /\ page.calls[c].pc = "json"
    /\ \E ok \in BOOLEAN : page' = AfterJson(page, c, ok)
    /\ UNCHANGED <<city, forecast, clock, req, norm, post, list, app, areq, dbh, boot, server>>

NextPage ==
    \/ \E c \in CallIds : ClickCity(c)
    \/ \E c \in CallIds : ClickRetry(c)
    \/ \E c \in CallIds : FetchReturns(c)
    \/ \E c \in CallIds : JsonReturns(c)

SpecPage == InitPage /\ [][NextPage]_vars

(***************************************************************************)
(* The Database helper on its own: one object, on which init, run, get,    *)
(* all and close are called in any order.  this.db is null or a sqlite3    *)
(* handle; the handle is assigned when init is called, before the file is  *)
(* opened, and is set back to null only by a close that succeeds.          *)
(***************************************************************************)
Queries == {"run", "get", "all"}

\* new Database(): private db = null
IdleHelper ==
    [db |-> Null,       \* this.db: null, or the handle and its state
     isOpen |-> FALSE,  \* history: the file was opened and not closed since
     results |-> [op \in Queries \cup {"init", "close"} |->
                    [outcome |-> "none", message |-> "",
                     touched |-> FALSE, wasOpen |-> FALSE]]]
                        \* history: how the last call of each operation settled

\* the promise of a call of op settles
Settle(h, op, outcome, message, touched) ==
    [h EXCEPT !.results[op] = [outcome |-> outcome, message |-> message,
                               touched |-> touched, wasOpen |-> h.isOpen]]

\* what a statement on the handle can give: sqlite3 runs it on an open
\* database, runs it or fails it on one that is opening or closing, and
\* fails it on a handle that did not open
StatementOutcomes(h) ==
    IF h.db.state = "open" THEN {"resolved", "rejected"}
    ELSE IF h.db.state \in {"opening", "closing"} THEN {"resolved", "rejected"}
    ELSE {"rejected"}

\* run, get, all: reject when this.db is null, else this.db.run / get / all
Query(h, op, outcome) ==
    IF h.db = Null
    THEN Settle(h, op, "rejected", "Database not initialized", FALSE)
    ELSE Settle(h, op, outcome,
                IF outcome = "rejected" THEN "SQLITE_ERROR" ELSE "", TRUE)

\* the callback of new sqlite3.Database(...): an error rejects init; else
\* InitDb.initialize runs, and init resolves or rejects with it
Opened(h, ok, initOk) ==
    IF ~ok
    THEN Settle([h EXCEPT !.db.state = "failed"], "init", "rejected", "SQLITE_CANTOPEN", TRUE)
    ELSE LET o == [h EXCEPT !.db.state = "open", !.isOpen = TRUE]
         IN  IF initOk THEN Settle(o, "init", "resolved", "", TRUE)
             ELSE Settle(o, "init", "rejected", "SQLITE_ERROR", TRUE)

\* the callback of this.db.close: an error rejects and keeps the handle;
\* else this.db = null
Closed(h, ok) ==
    IF ok /\ h.db.state # "failed"
    THEN [Settle(h, "close", "resolved", "", TRUE) EXCEPT !.db = Null, !.isOpen = FALSE]
    ELSE [Settle(h, "close", "rejected", "SQLITE_MISUSE", TRUE) EXCEPT
             !.db.state = IF h.db.state = "failed" THEN "failed" ELSE "open"]

InitHelper ==
    /\ city = {}
    /\ forecast = {}
    /\ clock = 0
    /\ req = [r \in ReqIds |-> IdleReq]
    /\ norm = [raw |-> NoFields, day |-> Undefined]
    /\ post = [p \in PostIds |-> IdlePost]
    /\ list = IdleList
    /\ app = IdleApp
    /\ areq = [a \in AppIds |-> IdleAppReq]
    /\ dbh = IdleHelper
    /\ boot = Undefined
    /\ page = Undefined
    /\ server = Undefined

\* init() is called: this.db = new sqlite3.Database(...)
HelperInit ==
    /\ dbh.db = Null
    /\ dbh' = [dbh EXCEPT !.db = [state |-> "opening"]]
    /\ UNCHANGED <<city, forecast, clock, req, norm, post, list, app, areq, boot, page, server>>

HelperOpened ==
    /\ dbh.db # Null /\ dbh.db.state = "opening"
    /\ \E ok \in BOOLEAN, initOk \in BOOLEAN : dbh' = Opened(dbh, ok, initOk)
    /\ UNCHANGED <<city, forecast, clock, req, norm, post, list, app, areq, boot, page, server>>

\* run, get or all is called and settles
HelperQuery ==
    /\ \E op \in Queries :
          \E outcome \in (IF dbh.db = Null THEN {"rejected"} ELSE StatementOutcomes(dbh)) :
              dbh' = Query(dbh, op, outcome)
    /\ UNCHANGED <<city, forecast, clock, req, norm, post, list, app, areq, boot, page, server>>

\* close() is called: it resolves when this.db is null, else this.db.close
HelperClose ==
    /\ IF dbh.db = Null THEN TRUE ELSE dbh.db.state \in {"open", "failed"}
    /\ dbh' = IF dbh.db = Null THEN Settle(dbh, "close", "resolved", "", FALSE)
               ELSE IF dbh.db.state = "failed" THEN Closed(dbh, FALSE)
               ELSE [dbh EXCEPT !.db.state = "closing"]
    /\ UNCHANGED <<city, forecast, clock, req, norm, post, list, app, areq, boot, page, server>>

HelperClosed ==
    /\ dbh.db # Null /\ dbh.db.state = "closing"
    /\ \E ok \in BOOLEAN : dbh' = Closed(dbh, ok)
    /\ UNCHANGED <<city, forecast, clock, req, norm, post, list, app, areq, boot, page, server>>

NextHelper ==
    \/ HelperInit
    \/ HelperOpened
    \/ HelperQuery
    \/ HelperClose
    \/ HelperClosed

SpecHelper == InitHelper /\ [][NextHelper]_vars

(***************************************************************************)
(* InitDb.initialize on its own: the process starts, and starts again,     *)
(* over a database file that keeps its city and forecast rows.             *)
(***************************************************************************)
\* const cities = [...]
InitialCities ==
    <<[insee |-> <<"7", "5", "1", "0", "1">>, name |-> "Paris 1er Arrondissement",
       zipcode |-> <<"7", "5", "0", "0", "1">>, population |-> 16888],
      [insee |-> <<"7", "5", "1", "0", "2">>, name |-> "Paris 2e Arrondissement",
       zipcode |-> <<"7", "5", "0", "0", "2">>, population |-> 22169],
      [insee |-> <<"7", "5", "1", "0", "3">>, name |-> "Paris 3e Arrondissement",
       zipcode |-> <<"7", "5", "0", "0", "3">>, population |-> 34248],
      [insee |-> <<"6", "9", "1", "2", "3">>, name |-> "Lyon",
       zipcode |-> <<"6", "9", "0", "0", "0">>, population |-> 515695],
      [insee |-> <<"1", "3", "0", "5", "5">>, name |-> "Marseille",
       zipcode |-> <<"1", "3", "0", "0", "0">>, population |-> 861635],
      [insee |-> <<"3", "1", "5", "5", "5">>, name |-> "Toulouse",
       zipcode |-> <<"3", "1", "0", "0", "0">>, population |-> 479553],
      [insee |-> <<"0", "6", "0", "8", "8">>, name |-> "Nice",
       zipcode |-> <<"0", "6", "0", "0", "0">>, population |-> 343629],
      [insee |-> <<"4", "4", "1", "0", "9">>, name |-> "Nantes",
       zipcode |-> <<"4", "4", "0", "0", "0">>, population |-> 309346],
      [insee |-> <<"6", "7", "4", "8", "2">>, name |-> "Strasbourg",
       zipcode |-> <<"6", "7", "0", "0", "0">>, population |-> 280966],
      [insee |-> <<"3", "4", "1", "7", "2">>, name |-> "Montpellier",
       zipcode |-> <<"3", "4", "0", "0", "0">>, population |-> 285121]>>

\* no run of initialize yet
IdleBoot ==
    [pc |-> "idle",     \* the await initialize is suspended at
     i |-> 0,           \* the position of the insert loop
     before |-> {}]     \* history: the city table when initialize was called

\* faulty variant: the seed rows are inserted whatever the count is
AfterCountAlways(b, ok) ==
    IF ~ok THEN [b EXCEPT !.pc = "failed"]
    ELSE [b EXCEPT !.pc = "insert", !.i = 1]

\* SELECT COUNT(*) returns: with a city stored the run ends, else the
\* first INSERT is issued
AfterCount(b, ok) ==
    IF ~ok THEN [b EXCEPT !.pc = "failed"]
    ELSE IF Cardinality(city) > 0 THEN [b EXCEPT !.pc = "done"]
    ELSE [b EXCEPT !.pc = "insert", !.i = 1]

\* a plain INSERT INTO city fails under insee TEXT PRIMARY KEY when the
\* code is stored
SeedInserted(b, ok) == ok /\ SelectCity(city, InitialCities[b.i].insee) = {}

\* a database file as a start of the process finds it
InitBoot ==
    /\ city \in {{}, {Bordeaux}}
    /\ forecast \in {{}, {[insee |-> Bordeaux.insee, date |-> 0,
                            details |-> Stringify(Details(RawDay(0, 1)))]}}
    /\ clock = 0
    /\ req = [r \in ReqIds |-> IdleReq]
    /\ norm = [raw |-> NoFields, day |-> Undefined]
    /\ post = [p \in PostIds |-> IdlePost]
    /\ list = IdleList
    /\ app = IdleApp
    /\ areq = [a \in AppIds |-> IdleAppReq]
    /\ dbh = Undefined
    /\ boot = IdleBoot
    /\ page = Undefined
    /\ server = Undefined

\* the process starts: initialize is called and the first CREATE TABLE IF
\* NOT EXISTS is issued
BootStart ==
    /\ boot.pc \in {"idle", "done", "failed"}
    /\ boot' = [IdleBoot EXCEPT !.pc = "city", !.before = city]
    /\ UNCHANGED <<city, forecast, clock, req, norm, post, list, app, areq, dbh, page, server>>

\* a CREATE TABLE IF NOT EXISTS returns: city, then forecast, then the count
BootTables ==
    /\ boot.pc \in {"city", "forecast"}
    /\ \E ok \in BOOLEAN :
          boot' = [boot EXCEPT !.pc = IF ~ok THEN "failed"
                                      ELSE IF boot.pc = "city" THEN "forecast"
                                      ELSE "count"]
    /\ UNCHANGED <<city, forecast, clock, req, norm, post, list, app, areq, dbh, page, server>>

BootCount ==
    /\ boot.pc = "count"
    /\ \E ok \in BOOLEAN : boot' = AfterCount(boot, ok)
    /\ UNCHANGED <<city, forecast, clock, req, norm, post, list, app, areq, dbh, page, server>>

\* an INSERT of the loop returns
BootInsert ==
    /\ boot.pc = "insert"
    /\ \E ok \in BOOLEAN :
          IF SeedInserted(boot, ok)
          THEN /\ city' = city \cup {InitialCities[boot.i]}
               /\ boot' = IF boot.i = Len(InitialCities)
                           THEN [boot EXCEPT !.pc = "done"]
                           ELSE [boot EXCEPT !.i = @ + 1]
          ELSE /\ city' = city
               /\ boot' = [boot EXCEPT !.pc = "failed"]
    /\ UNCHANGED <<forecast, clock, req, norm, post, list, app, areq, dbh, page, server>>

NextBoot ==
    \/ BootStart
    \/ BootTables
    \/ BootCount
    \/ BootInsert

SpecBoot == InitBoot /\ [][NextBoot]_vars

(***************************************************************************)
(* The server process after startServer: connections open and end, and     *)
(* SIGTERM or SIGINT starts gracefulShutdown.  server.close stops the      *)
(* listening and calls back once every connection has ended; the timer of  *)
(* the first shutdown fires 10 seconds after it.                           *)
(***************************************************************************)
Connections == {"k1", "k2", "k3"}

\* the process once app.listen has returned
IdleServer ==
    [state |-> "listening",  \* listening, closing (server.close called), exited
     open |-> {},            \* the connections that are open
     callbacks |-> 0,        \* the callbacks waiting for the close event
     timers |-> 0,           \* the force-close timers pending
     signals |-> <<>>,       \* history: the signals received
     code |-> -1,            \* the exit code of the process
     by |-> "none"]          \* history: what called process.exit

\* faulty variant: no force-close timer is set
gracefulShutdownNoTimer(sv, signal) ==
    [sv EXCEPT !.state = "closing",
               !.callbacks = @ + 1,
               !.signals = Append(@, signal)]

\* gracefulShutdown(signal): server.close(callback) and setTimeout(..., 10000)
gracefulShutdown(sv, signal) ==
    [sv EXCEPT !.state = "closing",
               !.callbacks = @ + 1,
               !.timers = @ + 1,
               !.signals = Append(@, signal)]

\* process.exit(code)
Exit(sv, code, by) ==
    [sv EXCEPT !.state = "exited", !.code = code, !.by = by,
               !.callbacks = 0, !.timers = 0, !.open = {}]

InitServer ==
    /\ city = SeedCities
    /\ forecast = {}
    /\ clock = 0
    /\ req = [r \in ReqIds |-> IdleReq]
    /\ norm = [raw |-> NoFields, day |-> Undefined]
    /\ post = [p \in PostIds |-> IdlePost]
    /\ list = IdleList
    /\ app = IdleApp
    /\ areq = [a \in AppIds |-> IdleAppReq]
    /\ dbh = Undefined
    /\ boot = Undefined
    /\ page = Undefined
    /\ server = IdleServer

\* a client connects to the listening server
ConnectionOpens ==
    /\ server.state = "listening"
    /\ \E k \in Connections \ server.open :
          server' = [server EXCEPT !.open = @ \cup {k}]
    /\ UNCHANGED <<city, forecast, clock, req, norm, post, list, app, areq, dbh, boot, page>>

\* a connection ends
ConnectionEnds ==
    /\ server.state # "exited"
    /\ \E k \in server.open : server' = [server EXCEPT !.open = @ \ {k}]
    /\ UNCHANGED <<city, forecast, clock, req, norm, post, list, app, areq, dbh, boot, page>>

\* SIGTERM or SIGINT arrives
Signal ==
    /\ server.state # "exited"
    /\ Len(server.signals) < MaxSignals
    /\ \E signal \in {"SIGTERM", "SIGINT"} : server' = gracefulShutdown(server, signal)
    /\ UNCHANGED <<city, forecast, clock, req, norm, post, list, app, areq, dbh, boot, page>>

\* the close event: the server is closing and no connection is left, so
\* the first callback runs process.exit(0)
ServerClosed ==
    /\ server.state = "closing"
    /\ server.open = {}
    /\ server.callbacks > 0
    /\ server' = Exit(server, 0, "close")
    /\ UNCHANGED <<city, forecast, clock, req, norm, post, list, app, areq, dbh, boot, page>>

\* a force-close timer fires: process.exit(1)
TimerFires ==
    /\ server.state # "exited"
    /\ server.timers > 0
    /\ server' = Exit(server, 1, "timer")
    /\ UNCHANGED <<city, forecast, clock, req, norm, post, list, app, areq, dbh, boot, page>>

NextServer ==
    \/ ConnectionOpens
    \/ ConnectionEnds
    \/ Signal
    \/ ServerClosed
    \/ TimerFires

\* the event loop runs a timer that is due and a close event that is
\* pending; nothing makes a client end its connection
SpecServer ==
    /\ InitServer
    /\ [][NextServer]_vars
    /\ WF_vars(TimerFires)
    /\ WF_vars(ServerClosed)

(***************************************************************************)
(* Properties                                                              *)
(***************************************************************************)
Response(r) == req[r].sent[1]

Answered(r) == req[r].pc = "done" /\ Len(req[r].sent) = 1

\* the stored rows of a location dated today or later
RowsFrom(insee, today) == {f \in forecast : f.insee = insee /\ f.date >= today}

\* request r takes the step that ends its await at `pc`
Leaves(r, pc) == req[r].pc = pc /\ req'[r] # req[r]

IsWindowOf(window, rows) ==
    /\ Len(window) = Cardinality(rows)
    /\ \A k \in 1..Len(window) :
          \E f \in rows : window[k] = Parse(f.details) @@ [date |-> f.date]
    /\ \A k \in 1..(Len(window) - 1) : window[k].date < window[k + 1].date

\* a request on the hit path has called no provider and written nothing
HitIsReadOnly ==
    \A r \in ReqIds :
        req[r].path = "hit" => req[r].apiCalls = 0 /\ req[r].written = {}

\* C2 as claimed: with a row dated today stored, the request calls no
\* provider and its window is exactly the stored rows dated today or later.
C2_ReturnsAllStoredRows ==
    /\ []HitIsReadOnly
    /\ [][\A r \in ReqIds :
            /\ (Leaves(r, "check") /\ req'[r].cause # "storage"
                  /\ \E f \in forecast : f.insee = req[r].insee /\ f.date = req[r].today)
               => req'[r].path = "hit"
            /\ (Leaves(r, "load") /\ req'[r].cause = "none")
               => IsWindowOf(req'[r].sent[1].body.forecast,
                             RowsFrom(req[r].insee, req[r].today))]_vars

\* the at most Limit earliest of the rows
Earliest(rows) ==
    {f \in rows : Cardinality({g \in rows : g.date < f.date}) < Limit}

\* C2 as amended: with a row dated today stored, the request calls no
\* provider and its window is the 4 earliest stored rows dated today or
\* later (all of them when they are at most 4), decoded, in date order.
C2_ReturnsStoredWindow ==
    /\ []HitIsReadOnly
    /\ [][\A r \in ReqIds :
            /\ (Leaves(r, "check") /\ req'[r].cause # "storage"
                  /\ \E f \in forecast : f.insee = req[r].insee /\ f.date = req[r].today)
               => req'[r].path = "hit"
            /\ (Leaves(r, "load") /\ req'[r].cause = "none")
               => IsWindowOf(req'[r].sent[1].body.forecast,
                             Earliest(RowsFrom(req[r].insee, req[r].today)))]_vars

\* a hit was answered from a table holding a row dated today and more
\* than 4 rows dated today or later
C2_Witness ==
    \E r \in ReqIds :
        /\ Answered(r) /\ req[r].path = "hit" /\ Response(r).status = 200
        /\ \E f \in forecast : f.insee = req[r].insee /\ f.date = req[r].today
        /\ Cardinality(RowsFrom(req[r].insee, req[r].today)) > Limit
        /\ Len(Response(r).body.forecast) = Limit

\* the registered location codes
Registered == {c.insee : c \in city}

\* C3: a request for a well-formed code that is not in the city table is
\* answered 404 'City not found' (unless the lookup itself fails), having
\* issued no provider call and no read or write of the forecast table.
C3_UnknownCityFailsFast ==
    \A r \in ReqIds :
        (req[r].pc # "idle" /\ ValidInsee(req[r].insee) /\ req[r].insee \notin Registered) =>
            /\ req[r].apiCalls = 0 /\ req[r].reads = 0 /\ req[r].written = {}
            /\ req[r].pc \in {"lookup", "done"}
            /\ (req[r].pc = "done" /\ req[r].cause # "storage") =>
                  req[r].sent = <<[status |-> 404, body |-> [error |-> "City not found"]]>>

\* a request for an unregistered code was answered 404
C3_Witness ==
    \E r \in ReqIds :
        /\ Answered(r) /\ req[r].insee = Unknown
        /\ Response(r).status = 404

\* C4: a request whose provider call failed is answered with the error
\* alone (no window, no statistics), and has written no forecast row.
C4_UpstreamFailureFailsRequest ==
    \A r \in ReqIds :
        req[r].cause = "upstream" =>
            /\ req[r].pc = "done"
            /\ req[r].path = "miss" /\ req[r].apiCalls = 1
            /\ req[r].written = {}
            /\ Len(req[r].sent) = 1
            /\ Response(r).status = 500
            /\ DOMAIN Response(r).body = {"error"}

\* a provider call failed while older rows of the location were stored
C4_Witness ==
    \E r \in ReqIds :
        /\ req[r].cause = "upstream"
        /\ \E f \in forecast : f.insee = req[r].insee /\ f.date < req[r].today

\* no two rows of the forecast table share (insee, date)
OneRowPerKey ==
    \A f, g \in forecast : (f.insee = g.insee /\ f.date = g.date) => f = g

\* C5: the forecast table never holds two rows for one (insee, date), and
\* after each upsert the one row of the written key has the written details.
C5_UpsertKeepsOneRowPerKey ==
    /\ []OneRowPerKey
    /\ [][\A r \in ReqIds :
            (Leaves(r, "persist") /\ req'[r].cause # "storage") =>
               \E row \in req'[r].written :
                  /\ row.insee = req[r].insee
                  /\ row.date = req[r].forecasts[req[r].i].datetime.date
                  /\ {f \in forecast' : f.insee = row.insee /\ f.date = row.date} = {row}]_vars

\* two requests wrote the same (insee, date) with different details, and
\* the table holds the row of one of them
C5_Witness ==
    \E a \in req["r1"].written, b \in req["r2"].written :
        /\ a.insee = b.insee /\ a.date = b.date /\ a.details # b.details
        /\ Cardinality({f \in forecast : f.insee = a.insee /\ f.date = a.date}) = 1

Refreshed(r) ==
    Answered(r) /\ req[r].path = "miss" /\ req[r].cause = "none"

\* C7: when two requests for one location have both refreshed it, both
\* called the provider and were answered 200, and the table holds exactly
\* one row for each (location, date), each a row one of the two wrote.
C7_ConcurrentMissesBothSucceed ==
    (Refreshed("r1") /\ Refreshed("r2") /\ req["r1"].insee = req["r2"].insee) =>
        LET both == req["r1"].written \cup req["r2"].written
            rows == {f \in forecast : f.insee = req["r1"].insee}
        IN  /\ \A r \in ReqIds : Response(r).status = 200 /\ req[r].apiCalls = 1
            /\ rows \subseteq both
            /\ \A w \in both :
                  Cardinality({f \in rows : f.date = w.date}) = 1
            /\ \A r \in ReqIds :
                  {e.date : e \in {Response(r).body.forecast[k] :
                                      k \in 1..Len(Response(r).body.forecast)}}
                     = {w.date : w \in req[r].written}

\* both requests refreshed the location and wrote different rows for a date
C7_Witness ==
    /\ Refreshed("r1") /\ Refreshed("r2") /\ req["r1"].insee = req["r2"].insee
    /\ \E a \in req["r1"].written, b \in req["r2"].written :
          a.date = b.date /\ a.details # b.details

\* C8 as claimed: with no request in progress, the stored rows of a
\* refreshed location are exactly the rows of one single provider response.
C8_RefreshReplacesWindow ==
    LET refreshed == {r \in ReqIds : Refreshed(r)}
    IN  (/\ refreshed # {}
         /\ \A r \in ReqIds : req[r].pc = "idle" \/ r \in refreshed
         /\ \A r, q \in refreshed : req[r].insee = req[q].insee) =>
            \E r \in refreshed :
                {f \in forecast : f.insee = req[r].insee /\ f.date >= req[r].today}
                   = req[r].written

\* C9: a request in flight has sent nothing and an answered request has
\* sent exactly one response: either 200 with the city, the whole window
\* (every entry persisted, on a miss) and its statistics, or an error alone.
C9_OneOutcome ==
    \A r \in ReqIds :
        /\ Len(req[r].sent) = (IF req[r].pc = "done" THEN 1 ELSE 0)
        /\ req[r].pc = "done" =>
              LET res == req[r].sent[1]
              IN  \/ /\ res.status = 200
                     /\ req[r].cause = "none"
                     /\ DOMAIN res.body = {"city", "forecast", "statistics"}
                     /\ res.body.city.insee = req[r].insee
                     /\ res.body.statistics.day_count = Len(res.body.forecast)
                     /\ req[r].path = "miss" =>
                           {res.body.forecast[k].date : k \in 1..Len(res.body.forecast)}
                              = {w.date : w \in req[r].written}
                  \/ /\ res.status \in {400, 404, 500}
                     /\ req[r].cause # "none"
                     /\ DOMAIN res.body = {"error"}

\* a request failed after it had written part of its window
C9_Witness ==
    \E r \in ReqIds :
        /\ Answered(r) /\ Response(r).status = 500
        /\ req[r].written # {}

\* C10 as claimed: two failed requests whose failures are of different
\* classes (unknown location, provider, storage) got different responses.
C10_FailuresDistinguishable ==
    \A r, q \in ReqIds :
        (/\ Answered(r) /\ Answered(q)
         /\ req[r].cause \in {"notfound", "upstream", "storage"}
         /\ req[q].cause \in {"notfound", "upstream", "storage"}
         /\ req[r].cause # req[q].cause) =>
            Response(r) # Response(q)

\* the dates of a window, in the order of its entries
Dates(window) == [k \in 1..Len(window) |-> window[k].date]

\* pairwise distinct and non-decreasing along the sequence
DistinctAndOrdered(dates) ==
    /\ \A j, k \in 1..Len(dates) : j # k => dates[j] # dates[k]
    /\ \A k \in 1..(Len(dates) - 1) : dates[k] <= dates[k + 1]

\* the dates of the first 4 records of the list the provider returned
GivenDates(r) ==
    [k \in 1..(IF Len(req[r].raw) < Limit THEN Len(req[r].raw) ELSE Limit) |->
        req[r].raw[k].datetime.date]

\* C11 as claimed: in the window of every successful response, on the hit
\* path and on the miss path whatever the provider returned, the dates are
\* pairwise distinct and non-decreasing.
C11_WindowDatesOrdered ==
    \A r \in ReqIds :
        (Answered(r) /\ Response(r).status = 200) =>
            DistinctAndOrdered(Dates(Response(r).body.forecast))

\* C11 as amended: the dates of a window are pairwise distinct and
\* non-decreasing on the hit path always, and on the miss path when the
\* first 4 records the provider returned are dated so.
C11_WindowDatesOrderedAsGiven ==
    \A r \in ReqIds :
        (Answered(r) /\ Response(r).status = 200) =>
            /\ req[r].path = "hit" =>
                  DistinctAndOrdered(Dates(Response(r).body.forecast))
            /\ (req[r].path = "miss" /\ DistinctAndOrdered(GivenDates(r))) =>
                  DistinctAndOrdered(Dates(Response(r).body.forecast))

\* one request stored a list that was out of date order and the other was
\* answered from the table with a window of two entries or more
C11_Witness ==
    \E r, q \in ReqIds :
        /\ Refreshed(r) /\ ~DistinctAndOrdered(GivenDates(r))
        /\ req[r].written \cap forecast # {}
        /\ Answered(q) /\ req[q].path = "hit" /\ Response(q).status = 200
        /\ req[q].insee = req[r].insee
        /\ Len(Response(q).body.forecast) >= 2

\* the smaller of two numbers
Min(a, b) == IF a < b THEN a ELSE b

\* C12: the window of every successful response has at most 4 entries and
\* day_count <= 4; on the miss path it is the normalization of the first
\* min(4, n) of the n records the provider returned, in the provider's
\* order, and nothing more.
C12_WindowAtMostFour ==
    \A r \in ReqIds :
        (Answered(r) /\ Response(r).status = 200) =>
            LET window == Response(r).body.forecast
                given == req[r].raw
            IN  /\ Len(window) <= 4
                /\ Response(r).body.statistics.day_count <= 4
                /\ req[r].path = "miss" =>
                      /\ Len(window) = Min(4, Len(given))
                      /\ \A k \in 1..Len(window) :
                            window[k] = [date |-> given[k].datetime.date] @@ Details(given[k])

\* the provider returned more than 4 records to one request and fewer
\* than 4, but some, to the other
C12_Witness ==
    \E r, q \in ReqIds :
        /\ Refreshed(r) /\ Len(req[r].raw) > 4
        /\ Len(Response(r).body.forecast) = 4
        /\ Refreshed(q) /\ Len(req[q].raw) \in 1..3
        /\ Len(Response(q).body.forecast) = Len(req[q].raw)

RECURSIVE Total(_, _, _)
\* the sum of window[k][key] over the positions k in ks
Total(window, key, ks) ==
    IF ks = {} THEN Num(0)
    ELSE LET k == CHOOSE j \in ks : TRUE
         IN  JsAdd(window[k][key], Total(window, key, ks \ {k}))

\* the positions of the entries of a window with temperature > 0
Warm(window) ==
    {k \in 1..Len(window) :
        window[k].temperature.t = "num" /\ window[k].temperature.n > 0}

\* C13: in every successful response the statistics are those of the
\* window in that response: day_count is its length, rain_sum the sum of
\* rain_probability over its entries (0 when empty), avg_temperature the
\* mean of temperature over the entries with temperature > 0, and exactly
\* 0 when there is no such entry.
C13_StatisticsOfWindow ==
    \A r \in ReqIds :
        (Answered(r) /\ Response(r).status = 200) =>
            LET window == Response(r).body.forecast
                stats == Response(r).body.statistics
                warm == Warm(window)
            IN  /\ stats.day_count = Len(window)
                /\ stats.rain_sum = Total(window, "rain_probability", 1..Len(window))
                /\ window = <<>> => stats.rain_sum = Num(0)
                /\ warm # {} =>
                      stats.avg_temperature =
                         JsDiv(Total(window, "temperature", warm), Cardinality(warm))
                /\ warm = {} => stats.avg_temperature = Num(0)

\* a window with entries above 0 degrees, entries at or below 0 and a
\* positive rain sum was returned
C13_Witness ==
    \E r \in ReqIds :
        /\ Answered(r) /\ Response(r).status = 200
        /\ Warm(Response(r).body.forecast) # {}
        /\ Cardinality(Warm(Response(r).body.forecast)) < Len(Response(r).body.forecast)
        /\ Response(r).body.statistics.rain_sum.n > 0

\* the provider's list of scenario A: 4 daily records, each with tmin 2,
\* tmax 10 and no temp2m, with probarain 10, 20, 30, 40
IsScenarioA(given) ==
    /\ Len(given) = 4
    /\ \A k \in 1..4 :
          /\ given[k].tmin = Num(2) /\ given[k].tmax = Num(10)
          /\ given[k].temp2m = Undefined
          /\ given[k].probarain = Num(10 * k)

\* C14: a request for a registered location that missed and was given the
\* list of scenario A by the provider, with no storage failure, is
\* answered 200 with rain_sum 100, avg_temperature 6 and day_count 4, and
\* has stored 4 rows.
C14_ScenarioA ==
    \A r \in ReqIds :
        (req[r].pc = "done" /\ IsScenarioA(req[r].raw) /\ req[r].cause # "storage") =>
            /\ Response(r).status = 200
            /\ Response(r).body.statistics =
                  [rain_sum |-> Num(100), avg_temperature |-> Num(6), day_count |-> 4]
            /\ Cardinality(req[r].written) = 4
            /\ req[r].written \subseteq forecast

\* scenario A ran against an empty forecast table: the table holds the 4
\* rows of the request and nothing else
C14_Witness ==
    \E r \in ReqIds :
        /\ Answered(r) /\ IsScenarioA(req[r].raw) /\ req[r].insee = Paris
        /\ Response(r).status = 200
        /\ forecast = req[r].written

\* the raw record has the field
Present(x) == x # Undefined

\* the first of a primary field, its alternate and 0 that is present
FirstPresent(primary, alternate) ==
    IF Present(primary) THEN primary
    ELSE IF Present(alternate) THEN alternate ELSE Num(0)

\* the record of norm has been normalized without an error
Normalized == norm.day # Undefined /\ norm.day # TypeError

\* the mean of a record's tmin and tmax, both present
MeanOfMinMax(f) == Rat(f.tmin.n * f.tmax.d + f.tmax.n * f.tmin.d, 2 * f.tmin.d * f.tmax.d)

\* C15 as claimed: each normalized field is the first element of its chain
\* that is present in the raw record (temperature: temp2m, then the mean of
\* tmin and tmax, then 0; the rain pair and the six other pairs: primary,
\* alternate, 0), so a primary field present with value 0 yields 0.
C15_FirstPresentWins ==
    Normalized =>
        LET f == norm.raw
            d == norm.day
        IN  /\ d.temperature =
                  (IF Present(f.temp2m) THEN f.temp2m
                   ELSE IF Present(f.tmin) /\ Present(f.tmax) THEN MeanOfMinMax(f)
                        ELSE Num(0))
            /\ d.rain_probability = FirstPresent(f.probarain, f.probrain)
            /\ d.humidity = FirstPresent(f.rh2m, f.humidity)
            /\ d.pressure = FirstPresent(f.pmer, f.pressure)
            /\ d.wind_speed = FirstPresent(f.wind10m, f.wind_speed)
            /\ d.wind_gust = FirstPresent(f.gust10m, f.wind_gust)
            /\ d.wind_direction = FirstPresent(f.dirwind10m, f.wind_direction)
            /\ d.weather_code = FirstPresent(f.weather, f.weather_code)

\* C16 as claimed: the normalized tmin is the record's tmin whenever the
\* record has one (0 included) and the computed temperature only when it
\* has none; the same for tmax.
C16_MinMaxKept ==
    Normalized =>
        LET f == norm.raw
            d == norm.day
        IN  /\ d.tmin = (IF Present(f.tmin) THEN f.tmin ELSE d.temperature)
            /\ d.tmax = (IF Present(f.tmax) THEN f.tmax ELSE d.temperature)

\* the ten numeric fields of a normalized day
NumericFields ==
    {"temperature", "tmin", "tmax", "humidity", "pressure", "wind_speed",
     "wind_gust", "wind_direction", "weather_code", "rain_probability"}

\* the numbers a raw record provides
Provided(f) == {f[x] : x \in {y \in RawFields \ {"datetime"} : Present(f[y])}}

Steps(r) == req[r].pc \notin {"idle", "done"} /\ req'[r] # req[r]

\* C18: a request is at one await at a time and passes them in the order
\* city lookup, freshness query, then the window query (hit) or the
\* provider call followed by one upsert per window entry in window order
\* (miss), then the response; each step writes at most the one row of the
\* current entry, and a request has written nothing unless its provider
\* call returned a list.
C18_StepsInSequence ==
    /\ [](\A r \in ReqIds :
            req[r].written # {} =>
               /\ req[r].path = "miss" /\ req[r].apiCalls = 1
               /\ req[r].pc \in {"persist", "done"}
               /\ req[r].cause \notin {"upstream", "config"}
               /\ req[r].raw # <<>>)
    /\ [][\A r \in ReqIds :
            Steps(r) =>
               /\ req[r].pc = "lookup" => req'[r].pc \in {"check", "done"}
               /\ req[r].pc = "check" => req'[r].pc \in {"load", "fetch", "done"}
               /\ req[r].pc = "load" => req'[r].pc = "done"
               /\ req[r].pc = "fetch" =>
                     /\ req'[r].pc \in {"persist", "done"}
                     /\ req'[r].pc = "persist" => req'[r].i = 1
               /\ req[r].pc = "persist" =>
                     /\ req'[r].pc \in {"persist", "done"}
                     /\ req'[r].pc = "persist" => req'[r].i = req[r].i + 1
                     /\ (req'[r].pc = "done" /\ req'[r].cause = "none") =>
                           req[r].i = Len(req[r].forecasts)
                     /\ req'[r].cause # "storage" =>
                           \E row \in forecast' :
                              /\ row.insee = req[r].insee
                              /\ row.date = req[r].forecasts[req[r].i].datetime.date
                              /\ req'[r].written = req[r].written \cup {row}
                              /\ forecast' \ {row} \subseteq forecast
               /\ req[r].pc # "persist" =>
                     /\ req'[r].written = req[r].written
                     /\ forecast' = forecast
               /\ \A q \in ReqIds \ {r} : req'[q] = req[q]]_vars

\* one request has run its four upserts to the response while the other
\* was in the middle of its own
C18_Witness ==
    \E r, q \in ReqIds :
        /\ Refreshed(r) /\ Cardinality(req[r].written) = 4
        /\ req[q].pc = "persist" /\ req[q].i = 3
        /\ req[q].insee = req[r].insee

\* C19: nothing is tried twice in a request: it calls the provider at most
\* once, it moves on to the next entry after each upsert, and the first
\* failure answers it and ends it, with nothing more written when the
\* failure is an unknown city, the provider's or the store's.
C19_NoRetry ==
    /\ [](\A r \in ReqIds :
            /\ req[r].apiCalls <= 1
            /\ req[r].cause # "none" => req[r].pc = "done" /\ Len(req[r].sent) = 1)
    /\ [][\A r \in ReqIds :
            Steps(r) =>
               /\ req[r].pc = "lookup" => req'[r].pc # "lookup"
               /\ req[r].pc \in {"check", "load"} => req'[r].pc # req[r].pc
               /\ req[r].pc = "fetch" =>
                     /\ req'[r].pc # "fetch"
                     /\ req'[r].apiCalls = req[r].apiCalls
               /\ (req[r].pc = "persist" /\ req'[r].pc = "persist") =>
                     /\ req'[r].i > req[r].i
                     /\ req'[r].apiCalls = req[r].apiCalls
               /\ req'[r].cause # "none" =>
                     /\ req'[r].pc = "done"
                     /\ req'[r].apiCalls = req[r].apiCalls
               /\ req'[r].cause \in {"notfound", "upstream", "storage"} =>
                     /\ req'[r].written = req[r].written
                     /\ forecast' = forecast]_vars

\* an upsert failed after the request had called the provider once and
\* stored part of its window
C19_Witness ==
    \E r \in ReqIds :
        /\ req[r].cause = "storage" /\ req[r].path = "miss"
        /\ req[r].apiCalls = 1
        /\ Cardinality(req[r].written) = 2
        /\ Len(req[r].raw) >= 4

\* C20: a request whose code is not 5 or 6 digits is answered 400 'Invalid
\* INSEE code format' at once: it never waits on the city lookup, reads no
\* city, reads and writes no forecast row and calls no provider.
C20_FormatCheckedFirst ==
    \A r \in ReqIds :
        (/\ req[r].pc # "idle"
         /\ ~(/\ Len(req[r].insee) \in {5, 6}
              /\ \A i \in 1..Len(req[r].insee) : req[r].insee[i] \in Digits)) =>
            /\ req[r].pc = "done"
            /\ req[r].sent =
                  <<[status |-> 400, body |-> [error |-> "Invalid INSEE code format"]]>>
            /\ req[r].city = Undefined
            /\ req[r].reads = 0 /\ req[r].written = {}
            /\ req[r].apiCalls = 0 /\ req[r].raw = <<>>

\* a code of seven digits was answered 400 while the table held rows
C20_Witness ==
    \E r \in ReqIds :
        /\ Answered(r) /\ req[r].insee = TooLong
        /\ Response(r).status = 400
        /\ forecast # {}

\* POST /cities request p takes the step that ends its await at `pc`
PostLeaves(p, pc) == post[p].pc = pc /\ post'[p] # post[p]

\* C21: a POST /cities request whose code is in the city table when its
\* lookup returns is answered 409 'City already exists' (unless the lookup
\* itself fails), has called no provider and issued no insert, and the
\* city table is as it was.
C21_DuplicateIsConflict ==
    /\ [](\A p \in PostIds :
            post[p].cause = "exists" =>
               /\ post[p].apiCalls = 0 /\ post[p].inserts = 0
               /\ post[p].inserted = {})
    /\ [][\A p \in PostIds :
            (/\ PostLeaves(p, "exists") /\ post'[p].cause # "storage"
             /\ \E c \in city : c.insee = post[p].insee) =>
               /\ post'[p].sent =
                     <<[status |-> 409, body |-> [error |-> "City already exists"]]>>
               /\ post'[p].pc = "done"
               /\ post'[p].apiCalls = 0 /\ post'[p].inserts = 0
               /\ city' = city]_vars

\* a code that an earlier POST /cities request added was posted again and
\* answered 409
C21_Witness ==
    \E p \in PostIds :
        /\ post[p].cause = "exists" /\ post[p].insee = Lyon
        /\ post[p].sent[1].status = 409
        /\ \E c \in city : c.insee = Lyon

\* C22: a POST /cities request whose provider call fails is answered 500
\* 'Failed to add city' at once, has issued no insert and inserted no
\* city, and no step it took changed the city table.
C22_UpstreamFailureAddsNoCity ==
    /\ [](\A p \in PostIds :
            post[p].cause = "upstream" =>
               /\ post[p].pc = "done"
               /\ Len(post[p].sent) = 1
               /\ post[p].sent[1].status = 500
               /\ post[p].sent[1].body.error = "Failed to add city"
               /\ post[p].apiCalls = 1 /\ post[p].inserts = 0
               /\ post[p].inserted = {})
    /\ [][\A p \in PostIds :
            (post[p].pc \in {"exists", "fetch"} /\ post'[p] # post[p]) =>
               city' = city]_vars

\* the provider call for a code that is not registered failed, and the
\* code is still not registered
C22_Witness ==
    \E p \in PostIds :
        /\ post[p].cause = "upstream" /\ post[p].insee = Lyon
        /\ post[p].sent[1].status = 500
        /\ \A c \in city : c.insee # Lyon

\* C23: a POST /cities request whose body has no insee, or an insee of
\* fewer than 5 characters, is answered 400 'Invalid request data' at once:
\* it never waits on anything, and has read no city, called no provider
\* and issued no insert.
C23_BadBodyRejectedFirst ==
    \A p \in PostIds :
        (/\ post[p].pc # "idle"
         /\ \/ post[p].body.insee = Undefined
            \/ Len(post[p].body.insee.s) < 5) =>
            /\ post[p].pc = "done"
            /\ Len(post[p].sent) = 1
            /\ post[p].sent[1].status = 400
            /\ post[p].sent[1].body.error = "Invalid request data"
            /\ post[p].reads = 0 /\ post[p].apiCalls = 0
            /\ post[p].inserts = 0 /\ post[p].inserted = {}

\* a body with a code of 3 characters was answered 400
C23_Witness ==
    \E p \in PostIds :
        /\ post[p].pc = "done"
        /\ post[p].body = [insee |-> Str(TooShort)]
        /\ post[p].sent[1].status = 400

\* C24: GET /cities never changes the city table; when its query returns
\* and every stored city is a City (code and zipcode of 5 characters or
\* more, a name, a positive population) it answers 200 with all the stored
\* cities, each with insee, name, zipcode and population only, in name
\* order; when a stored city has a population of 0 or less it answers 500
\* 'Failed to fetch cities' and no list.
C24_ListsAllOrFails ==
    [][(list' # list) =>
          /\ city' = city
          /\ (list.pc = "all" /\ list'.cause # "storage") =>
                LET res == list'.sent[1]
                IN  /\ Len(list'.sent) = 1
                    /\ (\A c \in city :
                           /\ Len(c.insee) >= 5 /\ Len(c.zipcode) >= 5
                           /\ c.name # "" /\ c.population > 0) =>
                          /\ res.status = 200
                          /\ Len(res.body) = Cardinality(city)
                          /\ {res.body[k] : k \in 1..Len(res.body)} = city
                          /\ \A k \in 1..Len(res.body) :
                                DOMAIN res.body[k] =
                                   {"insee", "name", "zipcode", "population"}
                          /\ \A k \in 1..(Len(res.body) - 1) :
                                NameRank(res.body[k].name) <= NameRank(res.body[k + 1].name)
                    /\ (\E c \in city : c.population <= 0) =>
                          /\ res.status = 500
                          /\ res.body = [error |-> "Failed to fetch cities"]]_vars

\* GET /cities answered 500 for a table with a registered city and a city
\* of negative population that POST /cities had added
C24_Witness ==
    /\ list.pc = "done" /\ list.cause = "schema"
    /\ list.sent[1].status = 500
    /\ \E c \in city : c.population > 0
    /\ \E p \in PostIds : \E c \in post[p].inserted : c \in city /\ c.population < 0

\* C25 as claimed: once a request has gone down the miss path and been
\* answered 200, the freshness query of every request for the same
\* location with the same today sends it down the hit path, with no
\* provider call.
C25_HitAfterMiss ==
    [][\A r, q \in ReqIds :
          (/\ r # q /\ Refreshed(r)
           /\ Leaves(q, "check") /\ req'[q].cause # "storage"
           /\ req[q].insee = req[r].insee /\ req[q].today = req[r].today) =>
              /\ req'[q].path = "hit"
              /\ req'[q].apiCalls = 0]_vars

\* C25 as amended: once a request has gone down the miss path and been
\* answered 200 with a window of at least one entry, the freshness query
\* of every request for the same location with the same today sends it
\* down the hit path, with no provider call.
C25_HitAfterStoringMiss ==
    [][\A r, q \in ReqIds :
          (/\ r # q /\ Refreshed(r)
           /\ Response(r).body.forecast # <<>>
           /\ Leaves(q, "check") /\ req'[q].cause # "storage"
           /\ req[q].insee = req[r].insee /\ req[q].today = req[r].today) =>
              /\ req'[q].path = "hit"
              /\ req'[q].apiCalls = 0]_vars

\* a request was answered from the table that holds the window a miss
\* stored, and nothing else
C25_Witness ==
    \E r, q \in ReqIds :
        /\ r # q /\ Refreshed(r) /\ Response(r).body.forecast # <<>>
        /\ forecast = req[r].written
        /\ Answered(q) /\ req[q].path = "hit" /\ req[q].apiCalls = 0
        /\ req[q].insee = req[r].insee /\ req[q].today = req[r].today
        /\ Response(q).status = 200

\* the rows of request q's location dated its today or later are the rows
\* that request r wrote, one for each date it wrote
HoldsRowsOf(r, q) ==
    /\ RowsFrom(req[q].insee, req[q].today) \subseteq req[r].written
    /\ \A w \in req[r].written :
          \E f \in RowsFrom(req[q].insee, req[q].today) : f.date = w.date

\* C26 as claimed: a request answered from the rows that a miss with the
\* same today stored, and no other rows, gets the window and the
\* statistics that the miss returned.
C26_HitReturnsWhatMissReturned ==
    [][\A r, q \in ReqIds :
          (/\ r # q /\ Refreshed(r)
           /\ Leaves(q, "load") /\ req'[q].cause = "none"
           /\ req[q].insee = req[r].insee /\ req[q].today = req[r].today
           /\ HoldsRowsOf(r, q)) =>
              /\ req'[q].sent[1].body.forecast = Response(r).body.forecast
              /\ req'[q].sent[1].body.statistics = Response(r).body.statistics]_vars

\* C26 as amended: a request answered from the rows that a miss with the
\* same today stored, and no other rows, gets the window and the
\* statistics that the miss returned, when the first 4 records the
\* provider gave the miss were dated in strictly increasing order.
C26_HitReturnsOrderedMiss ==
    [][\A r, q \in ReqIds :
          (/\ r # q /\ Refreshed(r)
           /\ DistinctAndOrdered(GivenDates(r))
           /\ Leaves(q, "load") /\ req'[q].cause = "none"
           /\ req[q].insee = req[r].insee /\ req[q].today = req[r].today
           /\ HoldsRowsOf(r, q)) =>
              /\ req'[q].sent[1].body.forecast = Response(r).body.forecast
              /\ req'[q].sent[1].body.statistics = Response(r).body.statistics]_vars

\* a hit returned the window of four entries, some of them 0 degrees or
\* colder, that a miss had returned and stored
C26_Witness ==
    \E r, q \in ReqIds :
        /\ r # q /\ Refreshed(r) /\ Answered(q) /\ req[q].path = "hit"
        /\ Response(q).status = 200
        /\ forecast = req[r].written
        /\ Len(Response(r).body.forecast) = 4
        /\ Response(q).body.forecast = Response(r).body.forecast
        /\ Cardinality(Warm(Response(q).body.forecast)) \in 1..3

\* C27: every step of a request that is on the hit path, the step that
\* decides the hit included, leaves the forecast table and the city table
\* exactly as they were.
C27_HitLeavesTablesAlone ==
    [][\A r \in ReqIds :
          (Steps(r) /\ req'[r].path = "hit") =>
              forecast' = forecast /\ city' = city]_vars

\* a hit was answered on a later day from a table that holds rows older
\* than its today next to fewer than 4 rows of its window
C27_Witness ==
    \E r \in ReqIds :
        /\ Answered(r) /\ req[r].path = "hit" /\ Response(r).status = 200
        /\ req[r].today >= 1
        /\ \E f \in forecast : f.insee = req[r].insee /\ f.date < req[r].today
        /\ Len(Response(r).body.forecast) \in 1..(Limit - 1)
        /\ city = SeedCities

\* the stored rows of the locations other than insee
RowsElsewhere(table, insee) == {f \in table : f.insee # insee}

\* C28: every step of a request for location L leaves the city table and
\* the forecast rows of every other location as they were and writes only
\* rows of L; its freshness decision and, on a hit, its window are those
\* of the rows of L alone.
C28_OnlyRowsOfItsLocation ==
    [][\A r \in ReqIds :
          Steps(r) =>
             /\ city' = city
             /\ RowsElsewhere(forecast', req[r].insee) = RowsElsewhere(forecast, req[r].insee)
             /\ \A f \in req'[r].written : f.insee = req[r].insee
             /\ (Leaves(r, "check") /\ req'[r].cause # "storage") =>
                   (req'[r].path = "hit" <=> RowsFrom(req[r].insee, req[r].today) # {})
             /\ (Leaves(r, "load") /\ req'[r].cause = "none") =>
                   LET rows == OrderByDate(RowsFrom(req[r].insee, req[r].today))
                       window == req'[r].sent[1].body.forecast
                   IN  /\ Len(window) = Min(Len(rows), Limit)
                       /\ \A k \in 1..Len(window) :
                             window[k] = Parse(rows[k].details) @@ [date |-> rows[k].date]]_vars

\* a request for Lyon was answered from its stored rows while the table
\* holds a row of Paris with the same date and other details, and more
\* rows of Paris dated today or later than of Lyon
C28_Witness ==
    \E r \in ReqIds :
        /\ Answered(r) /\ req[r].insee = Lyon /\ req[r].path = "hit"
        /\ Response(r).status = 200
        /\ \E f, g \in forecast :
              /\ f.insee = Paris /\ g.insee = Lyon
              /\ f.date = g.date /\ f.details # g.details
        /\ Cardinality(RowsFrom(Paris, req[r].today)) > Len(Response(r).body.forecast)

\* C29 as claimed: the step that answers a request with a failure leaves
\* the forecast table exactly as it was when the request arrived, with
\* requests served one at a time.
C29_FailureLeavesTable ==
    [][\A r \in ReqIds :
          (Steps(r) /\ req'[r].pc = "done" /\ req'[r].cause # "none") =>
              forecast' = req[r].before]_vars

\* window a has fewer entries than window b and equals its beginning
StrictPrefix(a, b) ==
    /\ Len(a) < Len(b)
    /\ \A k \in 1..Len(a) : a[k] = b[k]

\* C30 as claimed: while a miss is persisting its window, a request for
\* the same location and the same today that is answered from the table
\* never gets a window that is a strict prefix of the window of the miss.
C30_NoStrictPrefix ==
    [][\A r, q \in ReqIds :
          (/\ r # q
           /\ req[r].pc = "persist" /\ req[r].path = "miss"
           /\ \A k \in 1..Len(req[r].forecasts) : req[r].forecasts[k].datetime # Undefined
           /\ req[q].insee = req[r].insee /\ req[q].today = req[r].today
           /\ Leaves(q, "load") /\ req'[q].cause = "none") =>
              ~StrictPrefix(req'[q].sent[1].body.forecast, MissWindow(req[r].forecasts))]_vars

\* C31: an app instance constructs and initializes at most one database
\* and builds at most one router, and every request the routes handle
\* carries that database and is handled by the router built over it, once
\* it is ready.
C31_OneSharedDatabase ==
    /\ app.constructed <= 1 /\ app.initialized <= 1 /\ app.routers <= 1
    /\ \A a \in AppIds :
          areq[a].routedBy # 0 =>
             /\ app.database # Undefined
             /\ app.database.state = "ready"
             /\ areq[a].routedBy = app.database.id
             /\ areq[a].database = app.database.id

\* three requests were handled by the routes of the one database, one of
\* them the request that initialized it, another still with the routes
C31_Witness ==
    /\ app.constructed = 1 /\ app.routers = 1
    /\ \A a \in AppIds : areq[a].routedBy = 1
    /\ \E a, b \in AppIds : areq[a].pc = "routes" /\ areq[b].pc = "done"

\* C32 as claimed: once the database is ready, no request has been
\* answered 500 'Database initialization failed'.
C32_NoFailureWhenInitSucceeds ==
    (app.database # Undefined /\ app.database.state = "ready") =>
        \A a \in AppIds :
            \A k \in 1..Len(areq[a].sent) :
                areq[a].sent[k] # [status |-> 500,
                                   body |-> [error |-> "Database initialization failed"]]

\* C33 as claimed: every row a POST /cities request answered 201 inserted
\* satisfies the city schema, whatever city info the provider returned.
C33_InsertedRowsAreCities ==
    \A p \in PostIds : \A c \in post[p].inserted : ValidCity(c)

\* C34 as claimed: when a POST /cities request leaves its insert while the
\* other request for the same code, which overlapped it, has been answered
\* 201, it is answered 409 'City already exists', and the city table holds
\* exactly one row of the code.
C34_OneCreatedOneConflict ==
    [][\A p, q \in PostIds :
          (/\ p # q
           /\ post[p].pc = "done" /\ post[p].sent[1].status = 201
           /\ post[q].insee = post[p].insee
           /\ post[q].pc = "insert" /\ post'[q].pc = "done") =>
              /\ post'[q].sent[1].status = 409
              /\ post'[q].sent[1].body = [error |-> "City already exists"]
              /\ Cardinality(SelectCity(city', post[q].insee)) = 1]_vars

\* C35 as claimed: whenever the weather panel shows data, it is the
\* response for the selected city, and the panel shows the loading
\* indicator as long as a request for the selected city is outstanding.
C35_PanelShowsSelectedCity ==
    /\ Panel(page) = "data" =>
          page.selectedWeather.city.insee = page.selectedCity.insee
    /\ (/\ page.selectedCity # Null
        /\ \E c \in CallIds :
              /\ page.calls[c].pc # "idle"
              /\ page.calls[c].insee = page.selectedCity.insee) =>
          Panel(page) = "loading"

\* C36 as claimed: a run, get or all called while the database was not
\* open (never opened, or closed) was rejected with 'Database not
\* initialized' without touching a connection; a close called then
\* resolved; and after a close that resolved the handle is null.
C36_HelperLifecycle ==
    /\ \A op \in Queries :
          (dbh.results[op].outcome # "none" /\ ~dbh.results[op].wasOpen) =>
             /\ dbh.results[op].outcome = "rejected"
             /\ dbh.results[op].message = "Database not initialized"
             /\ ~dbh.results[op].touched
    /\ (dbh.results["close"].outcome # "none" /\ ~dbh.results["close"].wasOpen) =>
          dbh.results["close"].outcome = "resolved"
    /\ (dbh.results["close"].outcome = "resolved" /\ ~dbh.isOpen) => dbh.db = Null

\* the ten seed rows
TenCities == {InitialCities[k] : k \in 1..Len(InitialCities)}

\* C37: a run of initialize inserts seed rows only when it found the city
\* table empty, and then only seed rows, all ten by its end; a run that
\* found a city stored leaves the city table as it was; and no step of
\* any run changes the forecast table.
C37_InitializeIsIdempotent ==
    /\ [][boot' # boot =>
            /\ forecast' = forecast
            /\ city \subseteq city'
            /\ city' \ city \subseteq TenCities
            /\ (boot.pc # "idle" /\ boot.before # {}) => city' = city
            /\ city' # city => boot.before = {}]_vars
    /\ []((boot.pc = "done" /\ boot.before = {}) => city = TenCities)
    /\ []((boot.pc = "done" /\ boot.before # {}) => city = boot.before)

\* the process started again over the ten seed cities a first start had
\* inserted, and over a stored forecast row, and its run ended
C37_Witness ==
    /\ boot.pc = "done"
    /\ boot.before = TenCities /\ city = TenCities
    /\ forecast # {}

\* C38: once the process has received SIGTERM or SIGINT it eventually
\* exits, whatever signals follow; it exits with code 0 from the close
\* callback, after the server was told to close and with no connection
\* left, or with code 1 from the force-close timer; and without a signal
\* it does not exit.
C38_ShutdownExits ==
    /\ (server.signals # <<>>) ~> (server.state = "exited")
    /\ [](server.state = "exited" =>
             /\ server.signals # <<>>
             /\ \/ server.code = 0 /\ server.by = "close"
                \/ server.code = 1 /\ server.by = "timer")
    /\ [][server'.state = "exited" /\ server.state # "exited" =>
             IF server'.code = 0
             THEN server.state = "closing" /\ server.open = {}
             ELSE server.timers > 0]_vars

\* the process exited with code 1, from the timer, after it had received
\* two different signals
C38_Witness ==
    /\ server.state = "exited" /\ server.code = 1
    /\ Len(server.signals) = 2 /\ server.signals[1] # server.signals[2]

====
